---- MODULE Spec2Model ----
(***************************************************************************)
(* Verification model of the Rustacean OS kernel.                          *)
(*                                                                         *)
(*  - EventChain core (event_chains/chain.rs, result.rs, middleware.rs,    *)
(*    drivers/init.rs DependencyMiddleware)          : specification Spec  *)
(*  - PermissionMiddleware ring check as a function  : SpecPermission      *)
(*  - Desktop window manager (gui/desktop.rs)        : SpecDesktop         *)
(*  - Physical memory manager (mm/pmm.rs)           : SpecPmm             *)
(*  - Intrusive lists (mm/intrusive.rs)              : SpecIList           *)
(*  - Scheduler (sched/mod.rs)                       : SpecSched           *)
(*  - PS/2 keyboard (drivers/keyboard.rs)            : SpecKeyboard        *)
(*  - PS/2 mouse and Synaptics touchpad decoders     : SpecPointer         *)
(*  - Interrupt dispatch (arch/x86/idt.rs, pic.rs)   : SpecIdt             *)
(*  - Bring-up of the pointing device               : SpecBringup         *)
(*  - kernel_main and run_gui with IRQ1 and IRQ12    : SpecBoot            *)
(*  - Timer and delay_ms (arch/x86/pit.rs)           : SpecSleep(Fair)     *)
(*  - Click on two overlapping windows               : SpecClick           *)
(*  - One packet from the centre of the screen       : SpecPacket          *)
(*  - EventContext as stored (context.rs)            : SpecContext         *)
(*  - Driver chain (drivers/init.rs)                 : SpecDrivers         *)
(*  - handle_syscall (syscall/mod.rs)                : SpecSyscall(Fair)   *)
(*  - Desktop::draw and the software cursor          : SpecDraw            *)
(*  - Timer ticks on a set of ready tasks            : SpecRobin           *)
(*  - Modifier keys of the keyboard                  : SpecModifiers       *)
(*  - ATI Rage driver (drivers/ati_rage.rs)          : SpecRage            *)
(*  - Bump allocator (mm/heap.rs)                    : SpecHeap            *)
(*  - Framebuffer::fill_rect (gui/framebuffer.rs)    : SpecFill            *)
(*                                                                         *)
(* Sequences are 1-based: event e0 of the source is events[1], and         *)
(* middleware[0] is middleware[1].                                         *)
(***************************************************************************)
EXTENDS Integers, Sequences, FiniteSets, TLC

VARIABLES
    events,           \* EventChain.events[0..event_count)
    middleware,       \* EventChain.middleware[0..middleware_count)
    fault_tolerance,  \* EventChain.fault_tolerance
    chain_pc,         \* "building" until execute() has returned, then "done"
    context,          \* the EventContext handed to execute()
    result,           \* the ChainResult returned by execute()
    invoked,          \* event indices handed to execute_with_middleware, in order
    executed,         \* event indices whose own execute() body ran, in order
    trace,            \* middleware entries/exits and event bodies, in order
    rejected,         \* event indices for which a middleware returned without calling next
    retried,          \* event indices for which RetryMiddleware called next again
    perm_ring,        \* PermissionMiddleware check: value stored under "ring"
    perm_required,    \* PermissionMiddleware.required_ring
    perm_calls,       \* number of times the wrapped callable was invoked
    perm_result,      \* EventResult kind returned by PermissionMiddleware::execute
    perm_pc,
    desktop,          \* the Desktop (gui/desktop.rs)
    last_call,        \* the last Desktop operation: what it was given and returned
    returned,         \* the ids create_window has returned so far
    pmm,              \* the physical memory manager (PAGE_FRAMES, FREE_LIST, STATS)
    pmm_call,         \* the last PMM call and what it returned
    pmm_live,         \* the frames handed out by alloc_page and not given to free_page since
    ilist,            \* an IntrusiveList header (head, tail, len)
    inodes,           \* the IntrusiveNode embedded in each item
    il_call,          \* the last list operation and the item it took or returned
    sched,            \* the Task structures and the SCHEDULER (sched/mod.rs)
    kbd,              \* the Keyboard (drivers/keyboard.rs)
    kbd_pending,      \* key presses buffered by process_scancode and not yet returned by get_key
    kbd_held,         \* the modifier keys that are held down
    mouse,            \* the PS/2 Mouse (drivers/mouse.rs)
    touchpad,         \* the SynapticsTouchpad (drivers/synaptics.rs)
    ptr_call,         \* the decoder the IRQ12 handler routes to, the last byte fed to it and what process_byte returned
    tp_init,          \* what synaptics init returned and the device it talked to
    idt,              \* the interrupt dispatcher: TICK_COUNT, the last vector delivered, the number its stub pushed, the EOI commands sent, the diagnostic on the screen, and whether the processor runs or is halted
    boot,             \* the position of kernel_main and run_gui, the IF flag, the IRQ lines masked at the PIC, and the 8042 output buffer
    pit,              \* the timer: TICK_COUNT and TIMER_HZ of pit.rs, and the caller of delay_ms (position, start tick, ticks to wait)
    ectx,             \* an EventContext as stored: the entry array and count
    ectx_call,        \* the last context operation, its key and value, what a getter returned, and whether a key longer than the key buffer was ever set
    drv,              \* init_all_drivers: its position, the display and pointing hardware of the machine, the VESA mode of the boot info, and the DriverInitResult it returned
    sys,              \* handle_syscall: its position, the SyscallParams it was given, and the value it returned
    front,            \* the front buffer (the screen), a pixel per position: its colour and its alpha byte
    back,             \* the back buffer render_to_back_buffer draws into
    cursor,           \* the cursor fields of the Desktop: hw_cursor, cursor_save, cursor_save_x, cursor_save_y
    draw_call,        \* the last two operations on the desktop, the front buffer at the start of the last draw and the front buffer just before its overlay was drawn
    rr,               \* the ticks since the first timer interrupt: how many the current task has run, how many slices have expired, and for each task the expirations since it last ran
    rage,             \* the static ATI_RAGE (drivers/ati_rage.rs)
    rage_hw,          \* the chip of the machine
    rage_call,        \* the last call on ATI_RAGE, what it returned, and the value of mmio_verified at each register write it made
    heap,             \* the allocator ALLOCATOR (mm/heap.rs): its bump pointer, and whether an overflow check has stopped the kernel
    heap_call,        \* the last call, its layout, the pointer it returned, and whether every layout so far was one a Layout can hold
    heap_blocks,      \* the blocks alloc has returned: start and size
    fill_fb,          \* the framebuffer that fill_rect has drawn into
    fill_call         \* the rectangle given to the last fill_rect

chainVars == <<events, middleware, fault_tolerance, chain_pc, context, result,
               invoked, executed, trace, rejected, retried>>
permVars == <<perm_ring, perm_required, perm_calls, perm_result, perm_pc>>
deskVars == <<desktop, last_call, returned>>
pmmVars == <<pmm, pmm_call, pmm_live>>
ilistVars == <<ilist, inodes, il_call>>
schedVars == <<sched>>
kbdVars == <<kbd, kbd_pending, kbd_held>>
ptrVars == <<mouse, touchpad, ptr_call, tp_init>>
idtVars == <<idt>>
bootVars == <<boot>>
pitVars == <<pit>>
ctxVars == <<ectx, ectx_call>>
drvVars == <<drv>>
sysVars == <<sys>>
drawVars == <<front, back, cursor, draw_call>>
robinVars == <<rr>>
rageVars == <<rage, rage_hw, rage_call>>
heapVars == <<heap, heap_call, heap_blocks>>
fillVars == <<fill_fb, fill_call>>
vars == <<chainVars, permVars, deskVars, pmmVars, ilistVars, schedVars, kbdVars, ptrVars, idtVars, bootVars, pitVars, ctxVars, drvVars, sysVars, drawVars, robinVars, rageVars, heapVars, fillVars>>

----------------------------------------------------------------------------
(* Program constants *)

MAX_EVENTS == 16
TITLE_HEIGHT == 20
SCREEN_WIDTH == 800
SCREEN_HEIGHT == 600
MAX_MIDDLEWARE == 8
MAX_FAILURES == 16
U8_MODULUS == 256

(* Model bounds *)

MaxEvents == 3
MaxMiddleware == 2
MAX_WINDOWS == 2      \* 32 in the source; the window array is scaled down
MaxId == 4            \* create_window is not called once next_id has reached MaxId

----------------------------------------------------------------------------
(* EventContext: key -> tagged value *)

\* the keys of the kernel's chains: the driver chain (drivers/init.rs
\* context_keys) and the system call chain (syscall/mod.rs)
ContextKeys ==
    {"ring", "scr_width", "input_init"}
    \cup {"gpu_init", "gpu_type", "fb_addr", "fb_width", "fb_height", "fb_bpp", "fb_pitch",
          "hw_cursor", "input_type", "kb_init", "scr_height",
          "vesa_addr", "vesa_w", "vesa_h", "vesa_bpp", "vesa_pitch"}
    \cup {"syscall_number", "arg1", "arg2", "arg3", "arg4", "arg5", "result", "result64"}

ValNone == [tag |-> "None", v |-> 0]
ValU32(n) == [tag |-> "U32", v |-> n]
ValBool(b) == [tag |-> "Bool", v |-> IF b THEN 1 ELSE 0]
ValU64(n) == [tag |-> "U64", v |-> n]

EventContext_new == [k \in ContextKeys |-> ValNone]

set_value(ctx, key, value) == [ctx EXCEPT ![key] = value]

\* Option<u32> as a set of at most one element
get_u32(ctx, key) == IF ctx[key].tag = "U32" THEN {ctx[key].v} ELSE {}

get_bool(ctx, key) == IF ctx[key].tag = "Bool" THEN {ctx[key].v = 1} ELSE {}

unwrap_or(opt, default) == IF opt = {} THEN default ELSE CHOOSE x \in opt : TRUE

----------------------------------------------------------------------------
(* EventResult *)

Success == [kind |-> "Success", msg |-> ""]
Failure(m) == [kind |-> "Failure", msg |-> m]
MiddlewareFailure(m) == [kind |-> "MiddlewareFailure", msg |-> m]

is_success(r) == r.kind = "Success"
is_failure(r) == r.kind \in {"Failure", "MiddlewareFailure"}
is_middleware_failure(r) == r.kind = "MiddlewareFailure"

----------------------------------------------------------------------------
(* ChainResult *)

ChainResult_success == [success |-> TRUE, status |-> "Completed", failures |-> <<>>]

add_failure(res, failure) ==
    IF Len(res.failures) < MAX_FAILURES
    THEN [res EXCEPT !.failures = Append(@, failure)]
    ELSE res

failure_count(res) == Len(res.failures)

----------------------------------------------------------------------------
(* Events: a ChainableEvent is a name plus the behaviour of its execute().  *)
(* Success publishes the event's output key; the failure variants return    *)
(* before writing.  "FailOnce" fails on its first call and succeeds on a    *)
(* later one (a transient hardware error).                                  *)

EventSet ==
    { [name |-> "framebuffer_init", behaviour |-> "Success"],
      [name |-> "framebuffer_init", behaviour |-> "MiddlewareFailure"],
      [name |-> "synaptics_init", behaviour |-> "Success"],
      [name |-> "synaptics_init", behaviour |-> "Failure"],
      [name |-> "synaptics_init", behaviour |-> "FailOnce"] }

OutKey(name) == IF name = "framebuffer_init" THEN "scr_width" ELSE "input_init"
OutValue(name) == IF name = "framebuffer_init" THEN ValU32(800) ELSE ValBool(TRUE)

InSeq(x, s) == \E j \in 1..Len(s) : s[j] = x

----------------------------------------------------------------------------
(* The driver events (drivers/init.rs).  hw is what the hardware does: ati  *)
(* is "present", "absent" (no device on the PCI bus), "dead" (the chip does *)
(* not answer the verification read) or "no_mode" (set_mode fails), ati_fb  *)
(* the framebuffer address of the GPU, and synaptics the                    *)
(* outcome of synaptics::init, [ret, is_synaptics].  Each returns           *)
(* [res, context].                                                          *)

GPU_ATI_RAGE == 1
GPU_VESA == 2
INPUT_SYNAPTICS == 1
INPUT_PS2_VIA_SYNAPTICS == 2
INPUT_PS2_MOUSE == 3

SetAll(ctx, kvs) == [k \in DOMAIN ctx |-> IF k \in DOMAIN kvs THEN kvs[k] ELSE ctx[k]]

AtiRageProbeEvent(ctx, hw) ==
    CASE hw.ati = "absent" ->
             [res |-> Failure("ATI Rage Mobility P not found on PCI bus"), context |-> ctx]
      [] hw.ati = "no_mode" -> [res |-> Failure("MMIO not verified"), context |-> ctx]
      [] hw.ati = "dead" ->
             [res |-> Failure("MMIO verification failed - hardware not responding"),
              context |-> ctx]
      [] hw.ati = "present" ->
             [res |-> Success,
              context |-> SetAll(ctx, [gpu_init |-> ValBool(TRUE),
                                       gpu_type |-> ValU32(GPU_ATI_RAGE),
                                       fb_addr |-> ValU32(hw.ati_fb),
                                       fb_width |-> ValU32(800),
                                       fb_height |-> ValU32(600),
                                       fb_bpp |-> ValU32(32 \div 8),
                                       fb_pitch |-> ValU32(((800 * 4 + 63) \div 64) * 64),
                                       hw_cursor |-> ValBool(TRUE)])]

VesaFallbackEvent(ctx) ==
    IF unwrap_or(get_bool(ctx, "gpu_init"), FALSE) THEN [res |-> Success, context |-> ctx]
    ELSE IF get_u32(ctx, "vesa_addr") = {}
    THEN [res |-> Failure("No VESA framebuffer"), context |-> ctx]
    ELSE IF get_u32(ctx, "vesa_w") = {}
    THEN [res |-> Failure("No VESA width"), context |-> ctx]
    ELSE IF get_u32(ctx, "vesa_h") = {}
    THEN [res |-> Failure("No VESA height"), context |-> ctx]
    ELSE IF get_u32(ctx, "vesa_bpp") = {}
    THEN [res |-> Failure("No VESA bpp"), context |-> ctx]
    ELSE IF get_u32(ctx, "vesa_pitch") = {}
    THEN [res |-> Failure("No VESA pitch"), context |-> ctx]
    ELSE [res |-> Success,
          context |-> SetAll(ctx, [gpu_init |-> ValBool(TRUE),
                                   gpu_type |-> ValU32(GPU_VESA),
                                   fb_addr |-> ctx["vesa_addr"],
                                   fb_width |-> ctx["vesa_w"],
                                   fb_height |-> ctx["vesa_h"],
                                   fb_bpp |-> ctx["vesa_bpp"],
                                   fb_pitch |-> ctx["vesa_pitch"],
                                   hw_cursor |-> ValBool(FALSE)])]

FramebufferInitEvent(ctx) ==
    IF get_u32(ctx, "fb_addr") = {}
    THEN [res |-> Failure("No framebuffer address"), context |-> ctx]
    ELSE IF get_u32(ctx, "fb_width") = {}
    THEN [res |-> Failure("No framebuffer width"), context |-> ctx]
    ELSE IF get_u32(ctx, "fb_height") = {}
    THEN [res |-> Failure("No framebuffer height"), context |-> ctx]
    ELSE IF get_u32(ctx, "fb_bpp") = {}
    THEN [res |-> Failure("No framebuffer bpp"), context |-> ctx]
    ELSE IF get_u32(ctx, "fb_pitch") = {}
    THEN [res |-> Failure("No framebuffer pitch"), context |-> ctx]
    ELSE [res |-> Success,
          context |-> SetAll(ctx, [scr_width |-> ctx["fb_width"],
                                   scr_height |-> ctx["fb_height"]])]

\* whether the event goes on to call the driver's init
CallsInputInit(ctx) == ~unwrap_or(get_bool(ctx, "input_init"), FALSE)

SynapticsInitEvent(ctx, hw) ==
    IF ~CallsInputInit(ctx) THEN [res |-> Success, context |-> ctx]
    ELSE IF hw.synaptics.ret = "Ok"
    THEN [res |-> Success,
          context |-> SetAll(ctx, [input_init |-> ValBool(TRUE),
                                   input_type |-> ValU32(IF hw.synaptics.is_synaptics
                                                         THEN INPUT_SYNAPTICS
                                                         ELSE INPUT_PS2_VIA_SYNAPTICS)])]
    ELSE [res |-> Failure(hw.synaptics.ret), context |-> ctx]

\* the fallback records the input type and leaves input_init unset
Ps2MouseInitEvent_TypeOnly(ctx) ==
    IF ~CallsInputInit(ctx) THEN [res |-> Success, context |-> ctx]
    ELSE [res |-> Success,
          context |-> SetAll(ctx, [input_type |-> ValU32(INPUT_PS2_MOUSE)])]

Ps2MouseInitEvent(ctx) ==
    IF ~CallsInputInit(ctx) THEN [res |-> Success, context |-> ctx]
    ELSE [res |-> Success,
          context |-> SetAll(ctx, [input_init |-> ValBool(TRUE),
                                   input_type |-> ValU32(INPUT_PS2_MOUSE)])]

KeyboardInitEvent(ctx) ==
    [res |-> Success, context |-> SetAll(ctx, [kb_init |-> ValBool(TRUE)])]

DriverExecute(name, ctx, hw) ==
    CASE name = "ati_rage_probe" -> AtiRageProbeEvent(ctx, hw)
      [] name = "vesa_fallback" -> VesaFallbackEvent(ctx)
      [] name = "framebuffer_init" -> FramebufferInitEvent(ctx)
      [] name = "synaptics_init" -> SynapticsInitEvent(ctx, hw)
      [] name = "ps2_mouse_init" -> Ps2MouseInitEvent(ctx)
      [] name = "keyboard_init" -> KeyboardInitEvent(ctx)

----------------------------------------------------------------------------
(* The system call events (syscall/mod.rs).  env is what the rest of the    *)
(* kernel answers when the event runs: pid is the pid of the current task   *)
(* as Option<u32>, uptime what pit::uptime_ms returns.  Each returns        *)
(* [res, context]; the calls into the scheduler and the timer are made by   *)
(* the action that runs the chain.                                          *)

\* u32::MAX, written as the i32 with the same bits
U32_MAX == -1

SyscallExit(ctx) == [res |-> Success, context |-> SetAll(ctx, [result |-> ValU32(0)])]

SyscallRead(ctx) == [res |-> Success, context |-> SetAll(ctx, [result |-> ValU32(0)])]

SyscallWrite(ctx) ==
    LET fd == unwrap_or(get_u32(ctx, "arg1"), 0)
        count == unwrap_or(get_u32(ctx, "arg3"), 0)
    IN [res |-> Success,
        context |-> SetAll(ctx, [result |-> ValU32(IF fd = 1 \/ fd = 2 THEN count ELSE 0)])]

SyscallGetPid(ctx, env) ==
    [res |-> Success, context |-> SetAll(ctx, [result |-> ValU32(unwrap_or(env.pid, 0))])]

SyscallYield(ctx) == [res |-> Success, context |-> ctx]

\* after delay_ms has returned
SyscallSleep(ctx) == [res |-> Success, context |-> SetAll(ctx, [result |-> ValU32(0)])]

SyscallTime(ctx, env) ==
    [res |-> Success,
     context |-> SetAll(ctx, [result64 |-> ValU64(env.uptime), result |-> ValU32(env.uptime)])]

SyscallUnknown(ctx) ==
    [res |-> Failure("unknown syscall"), context |-> SetAll(ctx, [result |-> ValU32(U32_MAX)])]

\* pit::uptime_ms
uptime_ms(p) ==
    (p.TICK_COUNT \div p.TIMER_HZ) * 1000 + ((p.TICK_COUNT % p.TIMER_HZ) * 1000) \div p.TIMER_HZ

\* SCHEDULER.current() is None while no task has been scheduled
SyscallEnv ==
    [pid |-> IF sched.current >= 1 THEN {sched.current} ELSE {}, uptime |-> uptime_ms(pit)]

SyscallExecute(name, ctx, env) ==
    CASE name = "sys_exit" -> SyscallExit(ctx)
      [] name = "sys_read" -> SyscallRead(ctx)
      [] name = "sys_write" -> SyscallWrite(ctx)
      [] name = "sys_getpid" -> SyscallGetPid(ctx, env)
      [] name = "sys_yield" -> SyscallYield(ctx)
      [] name = "sys_sleep" -> SyscallSleep(ctx)
      [] name = "sys_time" -> SyscallTime(ctx, env)
      [] name = "sys_unknown" -> SyscallUnknown(ctx)

\* st = [context, executed, trace, rejected, retried]; returns [res, st]
EventExecute(i, st) ==
    LET ev == events[i]
        ran == [st EXCEPT !.executed = Append(@, i),
                          !.trace = Append(@, <<"event", 0, i>>)]
        ok == [res |-> Success,
               st |-> [ran EXCEPT !.context = set_value(@, OutKey(ev.name), OutValue(ev.name))]]
    IN CASE ev.behaviour = "Success" -> ok
         [] ev.behaviour = "Failure" -> [res |-> Failure("event failed"), st |-> ran]
         [] ev.behaviour = "MiddlewareFailure" ->
                [res |-> MiddlewareFailure("infrastructure failed"), st |-> ran]
         [] ev.behaviour = "FailOnce" ->
                IF InSeq(i, st.executed) THEN ok
                ELSE [res |-> Failure("event failed"), st |-> ran]
         [] ev.behaviour = "Driver" ->
                LET r == DriverExecute(ev.name, st.context, ev.hw)
                IN [res |-> r.res, st |-> [ran EXCEPT !.context = r.context]]
         [] ev.behaviour = "Syscall" ->
                LET r == SyscallExecute(ev.name, st.context, SyscallEnv)
                IN [res |-> r.res, st |-> [ran EXCEPT !.context = r.context]]

----------------------------------------------------------------------------
(* Middleware *)

MiddlewareSet ==
    { [kind |-> "Logging", arg |-> 0],
      [kind |-> "Permission", arg |-> 3],      \* PermissionMiddleware::user_allowed
      [kind |-> "Retry", arg |-> 1],           \* RetryMiddleware::new(1)
      [kind |-> "Dependency", arg |-> 0] }

\* `context.get_u32("ring").unwrap_or(0) as u8`
current_ring(ctx) == unwrap_or(get_u32(ctx, "ring"), 0) % U8_MODULUS

PermissionRejects(ctx, required_ring) == current_ring(ctx) > required_ring

DependencyRejects(ctx, name) ==
    /\ name \in {"synaptics_init", "ps2_mouse_init"}
    /\ get_u32(ctx, "scr_width") = {}

\* middleware taken in append order (FIFO) instead of reverse order
MwIdx_Fifo(index) == index + 1

\* middleware index used at recursion depth `index` (0-based depth, 1-based index)
MwIdx(index) == Len(middleware) - index

Enter(st, m, i) == [st EXCEPT !.trace = Append(@, <<"enter", m, i>>)]
Exit(r, m, i) == [r EXCEPT !.st.trace = Append(@, <<"exit", m, i>>)]
Reject(st, m, i, msg) ==
    Exit([res |-> Failure(msg), st |-> [st EXCEPT !.rejected = @ \cup {i}]], m, i)

RECURSIVE execute_middleware_recursive(_, _, _)
RECURSIVE RetryLoop(_, _, _, _, _)

\* RetryMiddleware::execute: `for _ in 0..=max_retries`
RetryLoop(attempt, max_retries, index, i, st) ==
    LET r == execute_middleware_recursive(index + 1, i, st)
    IN IF is_success(r.res) \/ attempt >= max_retries
       THEN r
       ELSE RetryLoop(attempt + 1, max_retries, index, i,
                      [r.st EXCEPT !.retried = @ \cup {i}])

execute_middleware_recursive(index, i, st) ==
    IF index >= Len(middleware)
    THEN EventExecute(i, st)
    ELSE LET m == MwIdx(index)
             mw == middleware[m]
             in == Enter(st, m, i)
         IN CASE mw.kind = "Logging" ->
                     Exit(execute_middleware_recursive(index + 1, i, in), m, i)
              [] mw.kind = "Audit" ->
                     Exit(execute_middleware_recursive(index + 1, i, in), m, i)
              [] mw.kind = "Permission" ->
                     IF PermissionRejects(in.context, mw.arg)
                     THEN Reject(in, m, i, "insufficient privileges")
                     ELSE Exit(execute_middleware_recursive(index + 1, i, in), m, i)
              [] mw.kind = "Dependency" ->
                     IF DependencyRejects(in.context, events[i].name)
                     THEN Reject(in, m, i, "Screen dimensions not set")
                     ELSE Exit(execute_middleware_recursive(index + 1, i, in), m, i)
              [] mw.kind = "Retry" ->
                     Exit(RetryLoop(0, mw.arg, index, i, in), m, i)

execute_with_middleware(i, st) ==
    IF Len(middleware) = 0
    THEN EventExecute(i, st)
    ELSE execute_middleware_recursive(0, i, st)

----------------------------------------------------------------------------
(* EventChain::execute *)

\* Strict arm falls through to `continue`
StopsOnFailure_StrictContinues(mode, event_result) ==
    CASE mode = "Strict" -> FALSE
      [] mode = "Lenient" -> FALSE
      [] mode = "BestEffort" -> is_middleware_failure(event_result)

\* BestEffort arm returns on every failure
StopsOnFailure_BestEffortStrict(mode, event_result) ==
    CASE mode = "Strict" -> TRUE
      [] mode = "Lenient" -> FALSE
      [] mode = "BestEffort" -> TRUE

\* Lenient arm shares the BestEffort arm
StopsOnFailure_LenientBestEffort(mode, event_result) ==
    CASE mode = "Strict" -> TRUE
      [] mode = "Lenient" -> is_middleware_failure(event_result)
      [] mode = "BestEffort" -> is_middleware_failure(event_result)

\* the `match self.fault_tolerance` of the failure branch: TRUE = return now
StopsOnFailure(mode, event_result) ==
    CASE mode = "Strict" -> TRUE
      [] mode = "Lenient" -> FALSE
      [] mode = "BestEffort" -> is_middleware_failure(event_result)

EventFailure(i, event_result) ==
    [event_name |-> events[i].name,
     error |-> event_result.msg,
     is_middleware_failure |-> is_middleware_failure(event_result),
     index |-> i]

FinalStatus(res, had_failures) ==
    IF had_failures THEN [res EXCEPT !.status = "CompletedWithWarnings"] ELSE res

\* acc = [result, had_failures, invoked]
RECURSIVE ExecuteLoop(_, _, _)
ExecuteLoop(i, st, acc) ==
    IF i > Len(events)
    THEN [st |-> st, invoked |-> acc.invoked,
          result |-> FinalStatus(acc.result, acc.had_failures)]
    ELSE LET r == execute_with_middleware(i, st)
             inv == Append(acc.invoked, i)
         IN IF is_failure(r.res)
            THEN LET logged == add_failure(acc.result, EventFailure(i, r.res))
                 IN IF StopsOnFailure(fault_tolerance, r.res)
                    THEN [st |-> r.st, invoked |-> inv,
                          result |-> [logged EXCEPT !.success = FALSE,
                                                    !.status = "Failed"]]
                    ELSE ExecuteLoop(i + 1, r.st,
                             [result |-> logged, had_failures |-> TRUE, invoked |-> inv])
            ELSE ExecuteLoop(i + 1, r.st, [acc EXCEPT !.invoked = inv])

----------------------------------------------------------------------------
(* Chain actions *)

FaultToleranceModes == {"Strict", "Lenient", "BestEffort"}

\* ring values the caller may store before execute() (handle_syscall stores 3)
ChainRings == {3, 4}

ChainNew ==
    /\ events = <<>>
    /\ middleware = <<>>
    /\ fault_tolerance = "Strict"
    /\ chain_pc = "building"
    /\ context = EventContext_new
    /\ result = ChainResult_success
    /\ invoked = <<>>
    /\ executed = <<>>
    /\ trace = <<>>
    /\ rejected = {}
    /\ retried = {}

\* EventChain::event
AddEvent(e) ==
    /\ chain_pc = "building"
    /\ Len(events) < MaxEvents
    /\ events' = IF Len(events) < MAX_EVENTS THEN Append(events, e) ELSE events
    /\ UNCHANGED <<middleware, fault_tolerance, chain_pc, context, result,
                   invoked, executed, trace, rejected, retried>>

\* EventChain::middleware
AddMiddleware(mw) ==
    /\ chain_pc = "building"
    /\ Len(middleware) < MaxMiddleware
    /\ middleware' = IF Len(middleware) < MAX_MIDDLEWARE
                     THEN Append(middleware, mw) ELSE middleware
    /\ UNCHANGED <<events, fault_tolerance, chain_pc, context, result,
                   invoked, executed, trace, rejected, retried>>

\* EventChain::with_fault_tolerance
WithFaultTolerance(mode) ==
    /\ chain_pc = "building"
    /\ fault_tolerance' = mode
    /\ UNCHANGED <<events, middleware, chain_pc, context, result,
                   invoked, executed, trace, rejected, retried>>

\* EventChain::execute on a context prepared by the caller
Execute(ring) ==
    /\ chain_pc = "building"
    /\ LET ctx0 == set_value(EventContext_new, "ring", ValU32(ring))
           st0 == [context |-> ctx0, executed |-> <<>>, trace |-> <<>>,
                   rejected |-> {}, retried |-> {}]
           out == ExecuteLoop(1, st0, [result |-> ChainResult_success,
                                       had_failures |-> FALSE, invoked |-> <<>>])
       IN /\ result' = out.result
          /\ context' = out.st.context
          /\ executed' = out.st.executed
          /\ trace' = out.st.trace
          /\ rejected' = out.st.rejected
          /\ retried' = out.st.retried
          /\ invoked' = out.invoked
    /\ chain_pc' = "done"
    /\ UNCHANGED <<events, middleware, fault_tolerance>>

ChainNext ==
    \/ \E e \in EventSet : AddEvent(e)
    \/ \E mw \in MiddlewareSet : AddMiddleware(mw)
    \/ \E mode \in FaultToleranceModes : WithFaultTolerance(mode)
    \/ \E ring \in ChainRings : Execute(ring)

----------------------------------------------------------------------------
(* PermissionMiddleware::execute as a function of (ring, required_ring) *)

\* 32-bit ring values (TLC integers stop at 2^31 - 1)
RingValues == (0..40) \cup {255, 256, 257, 259, 511, 512, 65536, 2147483647}
RequiredRings == {0, 1, 3, 255}

PermInit ==
    /\ perm_ring \in RingValues
    /\ perm_required \in RequiredRings
    /\ perm_calls = 0
    /\ perm_result = "none"
    /\ perm_pc = "ready"

\* PermissionMiddleware::execute with a `next` that counts its calls and succeeds
PermissionExecute ==
    /\ perm_pc = "ready"
    /\ LET ctx == set_value(EventContext_new, "ring", ValU32(perm_ring))
       IN IF PermissionRejects(ctx, perm_required)
          THEN /\ perm_result' = "Failure"
               /\ perm_calls' = perm_calls
          ELSE /\ perm_result' = "Success"
               /\ perm_calls' = perm_calls + 1
    /\ perm_pc' = "returned"
    /\ UNCHANGED <<perm_ring, perm_required>>

PermIdle ==
    /\ perm_ring = 0 /\ perm_required = 0 /\ perm_calls = 0
    /\ perm_result = "none" /\ perm_pc = "idle"

----------------------------------------------------------------------------
(* Window-manager chains (gui/wm_events.rs).  Each dispatcher runs a Strict  *)
(* chain of one event under call-through middleware, so its boolean is the   *)
(* success of that event's validation.                                       *)

\* every width and height passes the validation
dispatch_create_NoValidation(x, y, width, height) == TRUE

dispatch_create(x, y, width, height) ==
    /\ ~(width < 100 \/ height < 50)
    /\ ~(width > 2000 \/ height > 2000)

dispatch_destroy(window_id) == window_id # 0

dispatch_focus_change(old_focus, new_focus) == TRUE

BRING_TO_FRONT == 1

dispatch_z_order_change(window_id, direction) == ~(direction < 1 \/ direction > 4)

----------------------------------------------------------------------------
(* Desktop (gui/desktop.rs).  Option<T> is a set with at most one element.   *)

Slots == 0..(MAX_WINDOWS - 1)

NoWindow == [occupied |-> FALSE, id |-> 0, x |-> 0, y |-> 0,
             width |-> 0, height |-> 0, focused |-> FALSE]

\* Window::new: WindowFlags::default() has focused = false
Window_new(id, x, y, width, height) ==
    [occupied |-> TRUE, id |-> id, x |-> x, y |-> y,
     width |-> width, height |-> height, focused |-> FALSE]

\* Rect::contains on Window.bounds
contains(w, px, py) ==
    /\ px >= w.x /\ px < w.x + w.width
    /\ py >= w.y /\ py < w.y + w.height

\* Rect::contains on Window::title_rect
in_title_bar(w, px, py) ==
    /\ px >= w.x /\ px < w.x + w.width
    /\ py >= w.y /\ py < w.y + TITLE_HEIGHT

Desktop_new(screen_width, screen_height) ==
    [windows |-> [s \in Slots |-> NoWindow],
     z_order |-> [i \in Slots |-> 0],
     window_count |-> 0,
     focused |-> {},
     mouse_x |-> screen_width \div 2,
     mouse_y |-> screen_height \div 2,
     mouse_buttons |-> {},
     dragging |-> {},
     drag_offset |-> [x |-> 0, y |-> 0],
     drag_start_x |-> 0,
     drag_start_y |-> 0,
     screen_width |-> screen_width,
     screen_height |-> screen_height,
     next_id |-> 1,
     dirty |-> TRUE]

\* `self.z_order[..self.window_count].iter().position(|&s| s == slot)`
ZPositions(d, slot) == {i \in 0..(d.window_count - 1) : d.z_order[i] = slot}
Min(S) == CHOOSE m \in S : \A n \in S : m <= n

\* the shift loop leaves the old front entry where it was
bring_to_front_NoInsert(d, slot) ==
    IF ~d.windows[slot].occupied THEN d
    ELSE IF ~dispatch_z_order_change(d.windows[slot].id, BRING_TO_FRONT) THEN d
    ELSE IF ZPositions(d, slot) = {} THEN d
    ELSE LET current_pos == Min(ZPositions(d, slot))
         IN IF current_pos = 0 THEN d
            ELSE [d EXCEPT !.z_order = [i \in Slots |->
                                  IF i >= 1 /\ i <= current_pos THEN d.z_order[i - 1]
                                  ELSE d.z_order[i]],
                           !.dirty = TRUE]

bring_to_front(d, slot) ==
    IF ~d.windows[slot].occupied THEN d
    ELSE IF ~dispatch_z_order_change(d.windows[slot].id, BRING_TO_FRONT) THEN d
    ELSE IF ZPositions(d, slot) = {} THEN d
    ELSE LET current_pos == Min(ZPositions(d, slot))
         IN IF current_pos = 0 THEN d
            ELSE [d EXCEPT !.z_order = [i \in Slots |->
                                  IF i = 0 THEN slot
                                  ELSE IF i <= current_pos THEN d.z_order[i - 1]
                                  ELSE d.z_order[i]],
                           !.dirty = TRUE]

OptId(d, opt) == {d.windows[s].id : s \in {t \in opt : d.windows[t].occupied}}

\* the old window keeps its focused flag
focus_window_NoUnfocus(d, slot) ==
    IF slot >= MAX_WINDOWS \/ ~d.windows[slot].occupied THEN d
    ELSE IF ~dispatch_focus_change(OptId(d, d.focused), {d.windows[slot].id}) THEN d
    ELSE LET focusedNew == [d EXCEPT !.windows[slot].focused = TRUE,
                                     !.focused = {slot}]
         IN [bring_to_front(focusedNew, slot) EXCEPT !.dirty = TRUE]

focus_window(d, slot) ==
    IF slot >= MAX_WINDOWS \/ ~d.windows[slot].occupied THEN d
    ELSE IF ~dispatch_focus_change(OptId(d, d.focused), {d.windows[slot].id}) THEN d
    ELSE LET unfocused == [d EXCEPT !.windows = [s \in Slots |->
                                 IF s \in d.focused /\ d.windows[s].occupied
                                 THEN [d.windows[s] EXCEPT !.focused = FALSE]
                                 ELSE d.windows[s]]]
             focusedNew == [unfocused EXCEPT !.windows[slot].focused = TRUE,
                                             !.focused = {slot}]
         IN [bring_to_front(focusedNew, slot) EXCEPT !.dirty = TRUE]

FreeSlots(d) == {s \in Slots : ~d.windows[s].occupied}

\* returns [d, ret]: the desktop afterwards and the Option<u32> returned
create_window(d, x, y, width, height) ==
    IF ~dispatch_create(x, y, width, height) THEN [d |-> d, ret |-> {}]
    ELSE IF FreeSlots(d) = {} THEN [d |-> d, ret |-> {}]
    ELSE LET slot == Min(FreeSlots(d))
             id == d.next_id
             placed == [d EXCEPT !.next_id = @ + 1,
                                 !.windows[slot] = Window_new(id, x, y, width, height)]
             ordered == IF placed.window_count < MAX_WINDOWS
                        THEN [placed EXCEPT !.z_order[placed.window_count] = slot,
                                            !.window_count = @ + 1]
                        ELSE placed
         IN [d |-> [focus_window(ordered, slot) EXCEPT !.dirty = TRUE], ret |-> {id}]

\* the z-order entry of the destroyed slot is left in place
destroy_window_KeepZ(d, slot) ==
    IF slot >= MAX_WINDOWS THEN [d |-> d, ret |-> FALSE]
    ELSE IF ~d.windows[slot].occupied THEN [d |-> d, ret |-> FALSE]
    ELSE IF ~dispatch_destroy(d.windows[slot].id) THEN [d |-> d, ret |-> FALSE]
    ELSE LET cleared == IF d.focused = {slot} THEN [d EXCEPT !.focused = {}] ELSE d
         IN [d |-> [cleared EXCEPT !.windows[slot] = NoWindow, !.dirty = TRUE],
             ret |-> TRUE]

\* returns [d, ret]
destroy_window(d, slot) ==
    IF slot >= MAX_WINDOWS THEN [d |-> d, ret |-> FALSE]
    ELSE IF ~d.windows[slot].occupied THEN [d |-> d, ret |-> FALSE]
    ELSE IF ~dispatch_destroy(d.windows[slot].id) THEN [d |-> d, ret |-> FALSE]
    ELSE LET cleared == IF d.focused = {slot} THEN [d EXCEPT !.focused = {}] ELSE d
             removed ==
                 IF ZPositions(cleared, slot) = {} THEN cleared
                 ELSE LET pos == Min(ZPositions(cleared, slot))
                      IN [cleared EXCEPT
                             !.z_order = [i \in Slots |->
                                 IF i >= pos /\ i < cleared.window_count - 1
                                 THEN cleared.z_order[i + 1]
                                 ELSE cleared.z_order[i]],
                             !.window_count = IF @ > 0 THEN @ - 1 ELSE 0]
         IN [d |-> [removed EXCEPT !.windows[slot] = NoWindow, !.dirty = TRUE],
             ret |-> TRUE]

Clamp(v, lo, hi) == IF v < lo THEN lo ELSE IF v > hi THEN hi ELSE v

handle_mouse_move(d, x, y) ==
    LET moved == [d EXCEPT !.mouse_x = Clamp(x, 0, d.screen_width - 1),
                           !.mouse_y = Clamp(y, 0, d.screen_height - 1)]
    IN IF \E slot \in moved.dragging : moved.windows[slot].occupied
       THEN LET slot == CHOOSE t \in moved.dragging : TRUE
            IN [moved EXCEPT !.windows[slot].x = moved.mouse_x - moved.drag_offset.x,
                             !.windows[slot].y = moved.mouse_y - moved.drag_offset.y,
                             !.dirty = TRUE]
       ELSE moved

ButtonBit(button) ==
    CASE button = "Left" -> 1
      [] button = "Right" -> 2
      [] button = "Middle" -> 4

\* z-order indices whose window contains the mouse position, front first
Hits(d) == {i \in 0..(d.window_count - 1) :
               /\ d.windows[d.z_order[i]].occupied
               /\ contains(d.windows[d.z_order[i]], d.mouse_x, d.mouse_y)}

\* the grab offset is the mouse position, not its distance to the window origin
handle_mouse_button_ScreenOffset(d, button, pressed) ==
    IF pressed
    THEN LET down == [d EXCEPT !.mouse_buttons = @ \cup {ButtonBit(button)}]
         IN IF button = "Left" /\ Hits(down) # {}
            THEN LET slot == down.z_order[Min(Hits(down))]
                     window == down.windows[slot]
                     in_title == in_title_bar(window, down.mouse_x, down.mouse_y)
                     focusedD == IF down.focused # {slot}
                                 THEN focus_window(down, slot) ELSE down
                 IN IF in_title
                    THEN [focusedD EXCEPT
                             !.dragging = {slot},
                             !.drag_start_x = window.x,
                             !.drag_start_y = window.y,
                             !.drag_offset = [x |-> down.mouse_x, y |-> down.mouse_y]]
                    ELSE focusedD
            ELSE down
    ELSE LET up == [d EXCEPT !.mouse_buttons = @ \ {ButtonBit(button)}]
         IN IF button = "Left" THEN [up EXCEPT !.dragging = {}] ELSE up

handle_mouse_button(d, button, pressed) ==
    IF pressed
    THEN LET down == [d EXCEPT !.mouse_buttons = @ \cup {ButtonBit(button)}]
         IN IF button = "Left" /\ Hits(down) # {}
            THEN LET slot == down.z_order[Min(Hits(down))]
                     window == down.windows[slot]
                     in_title == in_title_bar(window, down.mouse_x, down.mouse_y)
                     focusedD == IF down.focused # {slot}
                                 THEN focus_window(down, slot) ELSE down
                 IN IF in_title
                    THEN [focusedD EXCEPT
                             !.dragging = {slot},
                             !.drag_start_x = window.x,
                             !.drag_start_y = window.y,
                             !.drag_offset = [x |-> down.mouse_x - window.x,
                                              y |-> down.mouse_y - window.y]]
                    ELSE focusedD
            ELSE down
    ELSE LET up == [d EXCEPT !.mouse_buttons = @ \ {ButtonBit(button)}]
         IN IF button = "Left" THEN [up EXCEPT !.dragging = {}] ELSE up

----------------------------------------------------------------------------
(* Desktop actions *)

\* create_window arguments: the two windows of the demo scenario, and sizes
\* on either side of each validation limit
CreateArgs ==
    { [x |-> 50, y |-> 50, width |-> 450, height |-> 220],
      [x |-> 60, y |-> 60, width |-> 400, height |-> 180],
      [x |-> 0, y |-> 0, width |-> 80, height |-> 40],
      [x |-> 0, y |-> 0, width |-> 99, height |-> 50],
      [x |-> 0, y |-> 0, width |-> 100, height |-> 49],
      [x |-> 0, y |-> 0, width |-> 2001, height |-> 100],
      [x |-> 0, y |-> 0, width |-> 100, height |-> 2001] }

ValidSize(a) == a.width >= 100 /\ a.width <= 2000 /\ a.height >= 50 /\ a.height <= 2000

MousePoints ==
    { [x |-> 55, y |-> 55], [x |-> 70, y |-> 65] }

Buttons == {"Left"}

Max(S) == CHOOSE m \in S : \A n \in S : m >= n

DeskNew ==
    /\ desktop = Desktop_new(SCREEN_WIDTH, SCREEN_HEIGHT)
    /\ last_call = [op |-> "new", valid |-> FALSE, free |-> TRUE, ret |-> {}, prev_max |-> 0]
    /\ returned = {}

CreateWindow(a) ==
    /\ desktop.next_id < MaxId
    /\ LET r == create_window(desktop, a.x, a.y, a.width, a.height)
       IN /\ desktop' = r.d
          /\ last_call' = [op |-> "create_window", valid |-> ValidSize(a),
                           free |-> FreeSlots(desktop) # {}, ret |-> r.ret,
                           prev_max |-> Max(returned \cup {0})]
          /\ returned' = returned \cup r.ret

OtherCall == [op |-> "other", valid |-> FALSE, free |-> TRUE, ret |-> {}, prev_max |-> 0]

DestroyWindow(slot) ==
    /\ desktop' = destroy_window(desktop, slot).d
    /\ last_call' = OtherCall
    /\ returned' = returned

MouseMove(p) ==
    /\ desktop' = handle_mouse_move(desktop, p.x, p.y)
    /\ last_call' = OtherCall
    /\ returned' = returned

MouseButton(button, pressed) ==
    /\ desktop' = handle_mouse_button(desktop, button, pressed)
    /\ last_call' = OtherCall
    /\ returned' = returned

DeskNext ==
    \/ \E a \in CreateArgs : CreateWindow(a)
    \/ \E slot \in 0..MAX_WINDOWS : DestroyWindow(slot)
    \/ \E p \in MousePoints : MouseMove(p)
    \/ \E button \in Buttons, pressed \in BOOLEAN : MouseButton(button, pressed)

----------------------------------------------------------------------------
(* Properties of the EventChain core *)

Done == chain_pc = "done"

UpTo(n) == [j \in 1..n |-> j]

FailureIndices == {result.failures[j].index : j \in 1..Len(result.failures)}

\* without middleware an invocation fails exactly when the event's own execute() fails
EventFails(i) == events[i].behaviour # "Success"

NoneExecutedAfter(k) == \A j \in 1..Len(executed) : executed[j] <= k

\* C1: in a Strict chain whose first failing invocation is that of event k, the
\* chain hands events 1..k to the middleware stack exactly once each in append
\* order, the outputs of events 1..k-1 are in the context, no event after k is
\* run, and the result is success = false, status = Failed with exactly one
\* failure record, which names event k.
C1_StrictStopsAtFirstFailure ==
    (Done /\ fault_tolerance = "Strict") =>
        IF failure_count(result) = 0
        THEN /\ invoked = UpTo(Len(events))
             /\ middleware = <<>> => \A i \in 1..Len(events) : ~EventFails(i)
        ELSE LET k == result.failures[1].index
             IN /\ invoked = UpTo(k)
                /\ NoneExecutedAfter(k)
                /\ \A j \in 1..(k - 1) : j \notin rejected /\ InSeq(j, executed)
                /\ \A j \in 1..(k - 1) :
                       context[OutKey(events[j].name)] = OutValue(events[j].name)
                /\ middleware = <<>> =>
                       /\ EventFails(k)
                       /\ \A j \in 1..(k - 1) : ~EventFails(j)
                /\ result.success = FALSE
                /\ result.status = "Failed"
                /\ failure_count(result) = 1
                /\ result.failures[1].event_name = events[k].name

C1_Witness ==
    /\ Done /\ fault_tolerance = "Strict"
    /\ Len(events) = 3
    /\ failure_count(result) = 1
    /\ result.failures[1].index = 2
    /\ context["scr_width"] = ValU32(800)

\* C2: in a BestEffort chain every failed invocation is logged; an event failure
\* lets the chain continue, the first middleware failure (at event k) ends it
\* with status = Failed, success = false and no event after k run; without a
\* middleware failure every event is invoked and the status is
\* CompletedWithWarnings iff something failed, Completed otherwise.
C2_BestEffortPolicy ==
    (Done /\ fault_tolerance = "BestEffort") =>
        LET n == failure_count(result)
            mwf == {j \in 1..n : result.failures[j].is_middleware_failure}
        IN /\ \A j \in 1..(n - 1) : result.failures[j].index < result.failures[j + 1].index
           /\ FailureIndices \subseteq {invoked[j] : j \in 1..Len(invoked)}
           /\ rejected \subseteq FailureIndices
           /\ middleware = <<>> =>
                  /\ FailureIndices = {i \in 1..Len(invoked) : EventFails(i)}
                  /\ \A j \in 1..n : result.failures[j].is_middleware_failure
                        <=> events[result.failures[j].index].behaviour = "MiddlewareFailure"
           /\ IF mwf # {}
              THEN LET k == result.failures[n].index
                   IN /\ mwf = {n}
                      /\ invoked = UpTo(k)
                      /\ NoneExecutedAfter(k)
                      /\ result.status = "Failed"
                      /\ result.success = FALSE
              ELSE /\ invoked = UpTo(Len(events))
                   /\ result.success = TRUE
                   /\ result.status = IF n > 0 THEN "CompletedWithWarnings" ELSE "Completed"

C2_Witness ==
    /\ Done /\ fault_tolerance = "BestEffort"
    /\ Len(events) = 3
    /\ failure_count(result) = 2
    /\ ~result.failures[1].is_middleware_failure
    /\ result.failures[2].is_middleware_failure
    /\ result.failures[2].index = 2

\* C3: a rejection decided by a middleware (permission denied, screen dimensions
\* missing) is recorded with is_middleware_failure = true and, in a Strict or a
\* BestEffort chain, ends the chain with status Failed before any later event.
C3_RejectionIsMiddlewareFailure ==
    Done =>
        \A j \in 1..failure_count(result) :
            result.failures[j].index \in rejected =>
                /\ result.failures[j].is_middleware_failure
                /\ fault_tolerance \in {"Strict", "BestEffort"} =>
                       /\ result.status = "Failed"
                       /\ invoked = UpTo(result.failures[j].index)

\* the trace the middleware stack m1..mJ leaves around one event
EventTrace(i) ==
    LET J == Len(middleware)
    IN [n \in 1..J |-> <<"enter", J - n + 1, i>>]
       \o << <<"event", 0, i>> >>
       \o [n \in 1..J |-> <<"exit", n, i>>]

RECURSIVE TraceOf(_)
TraceOf(s) == IF s = <<>> THEN <<>> ELSE EventTrace(Head(s)) \o TraceOf(Tail(s))

LifoAroundEachEvent ==
    /\ invoked = UpTo(Len(invoked))
    /\ trace = TraceOf(invoked)

\* C4 as stated: whenever no middleware short-circuits, each invoked event is
\* wrapped as mJ, ..., m1, event, m1, ..., mJ with every middleware entered once.
C4_Original == (Done /\ rejected = {}) => LifoAroundEachEvent

\* C4 (amended): whenever every middleware calls its continuation exactly once
\* (none short-circuits and RetryMiddleware does not retry), each invoked event
\* is wrapped as mJ, ..., m1, event, m1, ..., mJ with every middleware entered
\* once per event, and events are invoked in append order.
C4_LifoMiddleware == (Done /\ rejected = {} /\ retried = {}) => LifoAroundEachEvent

C4_Witness ==
    /\ Done /\ rejected = {} /\ retried = {}
    /\ Len(middleware) = 2 /\ middleware[1] # middleware[2]
    /\ Len(invoked) = 3
    /\ Len(trace) = 15

\* C5: in a Lenient chain every event is invoked whatever failed before, every
\* failed invocation is logged, the status is never Failed, and it is
\* CompletedWithWarnings iff at least one failure occurred (Completed otherwise).
C5_LenientPolicy ==
    (Done /\ fault_tolerance = "Lenient") =>
        LET n == failure_count(result)
        IN /\ invoked = UpTo(Len(events))
           /\ rejected \subseteq FailureIndices
           /\ middleware = <<>> => FailureIndices = {i \in 1..Len(events) : EventFails(i)}
           /\ \A j \in 1..(n - 1) : result.failures[j].index < result.failures[j + 1].index
           /\ result.status # "Failed"
           /\ result.success = TRUE
           /\ result.status = IF n > 0 THEN "CompletedWithWarnings" ELSE "Completed"

C5_Witness ==
    /\ Done /\ fault_tolerance = "Lenient"
    /\ Len(events) = 3
    /\ failure_count(result) = 2
    /\ result.failures[1].is_middleware_failure
    /\ result.failures[1].index = 1
    /\ 1 \in rejected \/ 2 \in rejected \/ middleware = <<>>
    /\ Len(invoked) = 3

\* C6: PermissionMiddleware rejects, without invoking the wrapped callable, iff
\* the 32-bit value stored under `ring` exceeds required_ring, and otherwise
\* invokes the callable exactly once.
C6_RejectsIffRingExceeds ==
    perm_pc = "returned" =>
        IF perm_ring > perm_required
        THEN perm_result = "Failure" /\ perm_calls = 0
        ELSE perm_result = "Success" /\ perm_calls = 1

----------------------------------------------------------------------------
(* Properties of the Desktop *)

Occupied(d) == {s \in Slots : d.windows[s].occupied}
FocusedWindows(d) == {s \in Occupied(d) : d.windows[s].focused}

LastCreate == last_call.op = "create_window"

\* what a successful create_window leaves behind
CreatedInFront ==
    \E id \in last_call.ret :
        /\ id > last_call.prev_max
        /\ desktop.window_count >= 1
        /\ desktop.windows[desktop.z_order[0]].occupied
        /\ desktop.windows[desktop.z_order[0]].id = id
        /\ desktop.focused = {desktop.z_order[0]}
        /\ Cardinality(FocusedWindows(desktop)) = 1

\* C7 as stated: from any desktop state, create_window with 100 <= w <= 2000 and
\* 50 <= h <= 2000 returns a fresh, larger id and leaves the new window at
\* z_order[0], focused, the only window with flags.focused.
C7_Original == (LastCreate /\ last_call.valid) => CreatedInFront

\* C7 (amended): from any desktop state with a free window slot, create_window
\* with 100 <= w <= 2000 and 50 <= h <= 2000 returns Some(id) with id greater
\* than every id returned earlier, and afterwards the new window's slot is at
\* z_order[0], focused names it, and exactly one occupied window has
\* flags.focused = true.
C7_CreateFocusesNewWindow ==
    (LastCreate /\ last_call.valid /\ last_call.free) => CreatedInFront

C7_Witness ==
    /\ LastCreate /\ last_call.valid /\ last_call.free
    /\ last_call.ret = {3}
    /\ desktop.window_count = 2

\* C8: create_window with w < 100, h < 50, w > 2000 or h > 2000 returns None and
\* leaves every field of the desktop (window slots, z_order, window_count,
\* focused, next_id, dragging state) as it was.
C8_RejectedCreateChangesNothing ==
    [][(last_call'.op = "create_window" /\ ~last_call'.valid) =>
           (last_call'.ret = {} /\ desktop' = desktop /\ returned' = returned)]_vars

C8_Witness ==
    /\ LastCreate /\ ~last_call.valid
    /\ last_call.ret = {}
    /\ desktop.window_count = 1
    /\ desktop.dragging # {}

\* C9: if focused is Some(i) then slot i is occupied and its window has
\* flags.focused, and at most one occupied window has flags.focused.
C9_FocusConsistent ==
    /\ \A i \in desktop.focused :
           desktop.windows[i].occupied /\ desktop.windows[i].focused
    /\ Cardinality(FocusedWindows(desktop)) <= 1

C9_Witness ==
    /\ desktop.window_count = 2
    /\ \E s \in desktop.focused : desktop.windows[s].id = 1
    /\ \E t \in Occupied(desktop) : desktop.windows[t].id = 2 /\ ~desktop.windows[t].focused

\* C10: every entry of z_order[0..window_count) indexes an occupied slot, every
\* occupied slot appears exactly once in z_order[0..window_count), and the ids
\* of the occupied windows are pairwise distinct.
C10_ZOrderConsistent ==
    /\ \A i \in 0..(desktop.window_count - 1) :
           desktop.windows[desktop.z_order[i]].occupied
    /\ \A s \in Occupied(desktop) : Cardinality(ZPositions(desktop, s)) = 1
    /\ \A s, t \in Occupied(desktop) :
           desktop.windows[s].id = desktop.windows[t].id => s = t

C10_Witness ==
    /\ desktop.window_count = 2
    /\ last_call.op = "other"
    /\ \E s \in Occupied(desktop) : desktop.windows[s].id = 3 /\ desktop.z_order[1] = s
    /\ \E t \in Occupied(desktop) : desktop.windows[t].id = 1 /\ desktop.z_order[0] = t

----------------------------------------------------------------------------
----------------------------------------------------------------------------
(* Intrusive lists (mm/intrusive.rs).  A node pointer is the index of the   *)
(* item that embeds the node; NULL is Option::None.  `nodes` maps every     *)
(* item to its embedded IntrusiveNode, `list` is the IntrusiveList header.  *)

NULL == 0 - 1

IntrusiveNode_new == [next |-> NULL, prev |-> NULL]

is_linked(node) == node.next # NULL \/ node.prev # NULL

IntrusiveList_new == [head |-> NULL, tail |-> NULL, len |-> 0]

push_front(list, nodes, item) ==
    LET n1 == [nodes EXCEPT ![item] = [next |-> list.head, prev |-> NULL]]
        n2 == IF list.head # NULL THEN [n1 EXCEPT ![list.head].prev = item] ELSE n1
    IN [list |-> [head |-> item,
                  tail |-> IF list.head # NULL THEN list.tail ELSE item,
                  len |-> list.len + 1],
        nodes |-> n2]

push_back(list, nodes, item) ==
    LET n1 == [nodes EXCEPT ![item] = [next |-> NULL, prev |-> list.tail]]
        n2 == IF list.tail # NULL THEN [n1 EXCEPT ![list.tail].next = item] ELSE n1
    IN [list |-> [head |-> IF list.tail # NULL THEN list.head ELSE item,
                  tail |-> item,
                  len |-> list.len + 1],
        nodes |-> n2]

pop_front(list, nodes) ==
    IF list.head = NULL
    THEN [list |-> list, nodes |-> nodes, ret |-> NULL]
    ELSE LET head == list.head
             new_head == nodes[head].next
             n1 == IF new_head # NULL THEN [nodes EXCEPT ![new_head].prev = NULL]
                                      ELSE nodes
         IN [list |-> [head |-> new_head,
                       tail |-> IF new_head # NULL THEN list.tail ELSE NULL,
                       len |-> list.len - 1],
             nodes |-> [n1 EXCEPT ![head] = IntrusiveNode_new],
             ret |-> head]

pop_back(list, nodes) ==
    IF list.tail = NULL
    THEN [list |-> list, nodes |-> nodes, ret |-> NULL]
    ELSE LET tail == list.tail
             new_tail == nodes[tail].prev
             n1 == IF new_tail # NULL THEN [nodes EXCEPT ![new_tail].next = NULL]
                                      ELSE nodes
         IN [list |-> [head |-> IF new_tail # NULL THEN list.head ELSE NULL,
                       tail |-> new_tail,
                       len |-> list.len - 1],
             nodes |-> [n1 EXCEPT ![tail] = IntrusiveNode_new],
             ret |-> tail]

\* the successor's back link is left pointing at the removed node
remove_KeepBackLink(list, nodes, item) ==
    LET prev == nodes[item].prev
        next == nodes[item].next
        n1 == IF prev # NULL THEN [nodes EXCEPT ![prev].next = next] ELSE nodes
    IN [list |-> [head |-> IF prev # NULL THEN list.head ELSE next,
                  tail |-> IF next # NULL THEN list.tail ELSE prev,
                  len |-> list.len - 1],
        nodes |-> [n1 EXCEPT ![item] = IntrusiveNode_new]]

remove(list, nodes, item) ==
    LET prev == nodes[item].prev
        next == nodes[item].next
        n1 == IF prev # NULL THEN [nodes EXCEPT ![prev].next = next] ELSE nodes
        n2 == IF next # NULL THEN [n1 EXCEPT ![next].prev = prev] ELSE n1
    IN [list |-> [head |-> IF prev # NULL THEN list.head ELSE next,
                  tail |-> IF next # NULL THEN list.tail ELSE prev,
                  len |-> list.len - 1],
        nodes |-> [n2 EXCEPT ![item] = IntrusiveNode_new]]

\* the items reachable from `from` by next links, at most `fuel` of them
RECURSIVE Reach(_, _, _)
Reach(nodes, from, fuel) ==
    IF from = NULL \/ fuel = 0 THEN <<>>
    ELSE <<from>> \o Reach(nodes, nodes[from].next, fuel - 1)

Range(s) == {s[i] : i \in 1..Len(s)}

----------------------------------------------------------------------------
(* StaticChain::execute (event_chains/chain.rs): the events are run         *)
(* directly, with no middleware pipeline.                                   *)

\* `match self.fault_tolerance { Strict => return, _ => continue }`
StaticStopsOnFailure(mode, event_result) == mode = "Strict"

\* acc = [result, had_failures, invoked]
RECURSIVE StaticExecuteLoop(_, _, _)
StaticExecuteLoop(i, st, acc) ==
    IF i > Len(events)
    THEN [st |-> st, invoked |-> acc.invoked,
          result |-> FinalStatus(acc.result, acc.had_failures)]
    ELSE LET r == EventExecute(i, st)
             inv == Append(acc.invoked, i)
         IN IF is_failure(r.res)
            THEN LET logged == add_failure(acc.result, EventFailure(i, r.res))
                 IN IF StaticStopsOnFailure(fault_tolerance, r.res)
                    THEN [st |-> r.st, invoked |-> inv,
                          result |-> [logged EXCEPT !.success = FALSE,
                                                    !.status = "Failed"]]
                    ELSE StaticExecuteLoop(i + 1, r.st,
                             [result |-> logged, had_failures |-> TRUE, invoked |-> inv])
            ELSE StaticExecuteLoop(i + 1, r.st, [acc EXCEPT !.invoked = inv])

\* StaticChain::execute of the chain's events, in its mode, on the context
\* the caller prepared
StaticChain_execute(ring) ==
    StaticExecuteLoop(1,
        [context |-> set_value(EventContext_new, "ring", ValU32(ring)),
         executed |-> <<>>, trace |-> <<>>, rejected |-> {}, retried |-> {}],
        [result |-> ChainResult_success, had_failures |-> FALSE, invoked |-> <<>>])

\* C38: for every list of events, every mode and every initial context,
\* StaticChain::execute produces the same ChainResult and the same final
\* context and invokes the same events as EventChain::execute on a chain of
\* the same events with no middleware, also when an event returns a
\* MiddlewareFailure result.
C38_StaticAsEventChain ==
    (Done /\ middleware = <<>>) =>
        \A ring \in ChainRings :
            get_u32(context, "ring") = {ring} =>
                LET out == StaticChain_execute(ring)
                IN /\ out.result = result
                   /\ out.st.context = context
                   /\ out.invoked = invoked
                   /\ out.st.executed = executed

\* the same, for the modes Strict and Lenient alone
StaticAsEventChainOutsideBestEffort ==
    fault_tolerance # "BestEffort" => C38_StaticAsEventChain

----------------------------------------------------------------------------
(* The demo scenario of the desktop: two overlapping windows and a click   *)
(* in the title bar of the one behind.                                      *)

\* an empty desktop, then create_window at (50,50) 450x220 (id 1, slot 0) and
\* create_window at (60,60) 400x180 (id 2, slot 1)
TwoWindows ==
    create_window(create_window(Desktop_new(SCREEN_WIDTH, SCREEN_HEIGHT),
                                50, 50, 450, 220).d,
                  60, 60, 400, 180).d

\* the points of window 1's title bar
TitleBarPoints ==
    {p \in [x : 50..499, y : 50..(50 + TITLE_HEIGHT - 1)] :
        in_title_bar(TwoWindows.windows[0], p.x, p.y)}

\* the mouse has been moved to a point of window 1's title bar
ClickInit ==
    /\ \E p \in TitleBarPoints : desktop = handle_mouse_move(TwoWindows, p.x, p.y)
    /\ last_call = OtherCall
    /\ returned = {1, 2}

ClickNext == \E pressed \in BOOLEAN : MouseButton("Left", pressed)

LeftDown == 1 \in desktop.mouse_buttons

GrabbedAt(slot, x, y) ==
    /\ desktop.focused = {slot}
    /\ desktop.windows[slot].focused
    /\ desktop.z_order[0] = slot
    /\ desktop.dragging = {slot}
    /\ desktop.drag_offset = [x |-> desktop.mouse_x - x, y |-> desktop.mouse_y - y]

\* C28 as stated: a left press at any point inside window 1's title bar makes
\* window 1 the focused and front-most window and starts a drag of window 1
\* with grab offset (click_x - 50, click_y - 50).
C28_Original == LeftDown => GrabbedAt(0, 50, 50)

\* C28 (amended): a left press at a point of window 1's title bar that window
\* 2 does not cover makes window 1 the focused and front-most window and
\* starts a drag of window 1 with grab offset (click_x - 50, click_y - 50); at
\* a point that window 2 covers (60 <= x < 460 and y >= 60) the press goes to
\* window 2, which stays focused and in front and is the window dragged, with
\* grab offset (click_x - 60, click_y - 60).
C28_ClickInTitleBar ==
    LeftDown =>
        IF contains(TwoWindows.windows[1], desktop.mouse_x, desktop.mouse_y)
        THEN GrabbedAt(1, 60, 60) /\ ~desktop.windows[0].focused
        ELSE GrabbedAt(0, 50, 50) /\ ~desktop.windows[1].focused

\* window 1 has been grabbed left of window 2
C28_Witness ==
    /\ LeftDown
    /\ desktop.mouse_x = 55 /\ desktop.mouse_y = 65
    /\ desktop.dragging = {0}
    /\ desktop.z_order[0] = 0
    /\ desktop.drag_offset = [x |-> 5, y |-> 15]

----------------------------------------------------------------------------
(* The drag state of the desktop (gui/desktop.rs)                           *)

\* every slot that dragging names holds a window
DragSlotOccupied == \A slot \in desktop.dragging : desktop.windows[slot].occupied

\* a step that takes the left button from down to up
LeftRelease == 1 \in desktop.mouse_buttons /\ 1 \notin desktop'.mouse_buttons

\* C37: whenever dragging is Some(slot) the slot is occupied by the window on
\* which the drag began, so that destroy_window of the window being dragged
\* ends the drag and a later mouse move repositions neither an empty slot nor
\* a window created in it afterwards; and a release of the left button leaves
\* dragging = None.
C37_DragNamesWindow ==
    /\ []DragSlotOccupied
    /\ [][LeftRelease => desktop'.dragging = {}]_vars

\* the release of the left button alone
DragEndsOnRelease == [][LeftRelease => desktop'.dragging = {}]_vars

----------------------------------------------------------------------------
(* EventContext as it is stored (event_chains/context.rs): an array of      *)
(* entries, each a key buffer with its length, a typed value and an         *)
(* occupied flag, and a count.  A key is a sequence of bytes.               *)

MAX_ENTRIES == 2   \* 32 in the source; the entry array is scaled down
MAX_KEY_LEN == 2   \* 32 in the source; the key buffer is scaled down

EntrySlots == 1..MAX_ENTRIES

\* keys given to the context; the last one is longer than the key buffer
CtxKeys == {<<1>>, <<2>>, <<1, 2>>, <<1, 2, 1>>}

CtxValues == {ValBool(TRUE), ValU32(7)}

ContextEntry_empty == [key |-> <<>>, key_len |-> 0, value |-> ValNone, occupied |-> FALSE]

Context_new == [entries |-> [i \in EntrySlots |-> ContextEntry_empty], count |-> 0]

\* Option<usize> as a set of at most one index
find_key(c, key) ==
    LET found == {i \in EntrySlots :
                     /\ c.entries[i].occupied
                     /\ c.entries[i].key_len = Len(key)
                     /\ c.entries[i].key = key}
    IN IF found = {} THEN {} ELSE {Min(found)}

\* an existing key is not looked for
Context_set_value_NoFind(c, key, value) ==
    IF c.count >= MAX_ENTRIES THEN c
    ELSE LET free == {i \in EntrySlots : ~c.entries[i].occupied}
         IN IF free = {} THEN c
            ELSE LET copy_len == Min({Len(key), MAX_KEY_LEN})
                 IN [c EXCEPT !.entries[Min(free)] =
                                  [key |-> SubSeq(key, 1, copy_len), key_len |-> copy_len,
                                   value |-> value, occupied |-> TRUE],
                              !.count = @ + 1]

Context_set_value(c, key, value) ==
    IF find_key(c, key) # {}
    THEN [c EXCEPT !.entries[CHOOSE i \in find_key(c, key) : TRUE].value = value]
    ELSE IF c.count >= MAX_ENTRIES THEN c
    ELSE LET free == {i \in EntrySlots : ~c.entries[i].occupied}
         IN IF free = {} THEN c
            ELSE LET copy_len == Min({Len(key), MAX_KEY_LEN})
                 IN [c EXCEPT !.entries[Min(free)] =
                                  [key |-> SubSeq(key, 1, copy_len), key_len |-> copy_len,
                                   value |-> value, occupied |-> TRUE],
                              !.count = @ + 1]

\* Option<&ContextValue>
Context_get_value(c, key) == {c.entries[i].value : i \in find_key(c, key)}

Context_get_bool(c, key) == {v.v = 1 : v \in {w \in Context_get_value(c, key) : w.tag = "Bool"}}

Context_get_u32(c, key) == {v.v : v \in {w \in Context_get_value(c, key) : w.tag = "U32"}}

has(c, key) == find_key(c, key) # {}

Context_remove(c, key) ==
    IF find_key(c, key) # {}
    THEN [c EXCEPT !.entries[CHOOSE i \in find_key(c, key) : TRUE].occupied = FALSE,
                   !.count = @ - 1]
    ELSE c

Context_clear(c) ==
    [c EXCEPT !.entries = [i \in EntrySlots |-> [c.entries[i] EXCEPT !.occupied = FALSE]],
              !.count = 0]

Context_len(c) == c.count

CtxIdle ==
    /\ ectx = Context_new
    /\ ectx_call = [op |-> "new", key |-> <<>>, value |-> ValNone, ret |-> {}, long |-> FALSE]

\* set_bool, set_u32
CtxSet(key, value) ==
    /\ ectx' = Context_set_value(ectx, key, value)
    /\ ectx_call' = [op |-> "set", key |-> key, value |-> value, ret |-> {},
                    long |-> ectx_call.long \/ Len(key) > MAX_KEY_LEN]

CtxGetBool(key) ==
    /\ ectx' = ectx
    /\ ectx_call' = [ectx_call EXCEPT !.op = "get_bool", !.key = key, !.value = ValNone,
                                    !.ret = Context_get_bool(ectx, key)]

CtxGetU32(key) ==
    /\ ectx' = ectx
    /\ ectx_call' = [ectx_call EXCEPT !.op = "get_u32", !.key = key, !.value = ValNone,
                                    !.ret = Context_get_u32(ectx, key)]

CtxRemove(key) ==
    /\ ectx' = Context_remove(ectx, key)
    /\ ectx_call' = [ectx_call EXCEPT !.op = "remove", !.key = key, !.value = ValNone,
                                    !.ret = {}]

CtxClear ==
    /\ ectx' = Context_clear(ectx)
    /\ ectx_call' = [ectx_call EXCEPT !.op = "clear", !.key = <<>>, !.value = ValNone,
                                    !.ret = {}]

CtxNext ==
    \/ \E key \in CtxKeys, value \in CtxValues : CtxSet(key, value)
    \/ \E key \in CtxKeys : CtxGetBool(key)
    \/ \E key \in CtxKeys : CtxGetU32(key)
    \/ \E key \in CtxKeys : CtxRemove(key)
    \/ CtxClear

\* the occupied entries holding a key
EntriesOf(c, key) ==
    {i \in EntrySlots : c.entries[i].occupied /\ c.entries[i].key = key}

OccupiedEntries(c) == {i \in EntrySlots : c.entries[i].occupied}

\* every key given so far fits the key buffer
ShortKeys == ~ectx_call.long /\ ~ectx_call'.long

\* C25: with keys that fit the key buffer, after any sequence of set, remove
\* and clear: each key is in at most one entry and len() is the number of
\* entries and at most the capacity; a set of a present key replaces its value
\* and type and leaves len(); a set of a new key on a full context changes
\* nothing; a getter returns None for an absent key and for a key that holds
\* a value of another type.
C25_ContextStore ==
    [][ShortKeys =>
          /\ \A key \in CtxKeys : Cardinality(EntriesOf(ectx', key)) <= 1
          /\ Context_len(ectx') = Cardinality(OccupiedEntries(ectx'))
          /\ Context_len(ectx') <= MAX_ENTRIES
          /\ ectx_call'.op = "set" =>
                IF has(ectx, ectx_call'.key)
                THEN /\ Context_len(ectx') = Context_len(ectx)
                     /\ Context_get_value(ectx', ectx_call'.key) = {ectx_call'.value}
                     /\ \A key \in CtxKeys \ {ectx_call'.key} :
                           Context_get_value(ectx', key) = Context_get_value(ectx, key)
                ELSE IF Context_len(ectx) = MAX_ENTRIES
                THEN ectx' = ectx
                ELSE /\ Context_len(ectx') = Context_len(ectx) + 1
                     /\ Context_get_value(ectx', ectx_call'.key) = {ectx_call'.value}
          /\ ectx_call'.op = "get_bool" =>
                ectx_call'.ret =
                    IF EntriesOf(ectx, ectx_call'.key) = {} THEN {}
                    ELSE LET value == ectx.entries[CHOOSE i \in EntriesOf(ectx, ectx_call'.key) : TRUE].value
                         IN IF value.tag = "Bool" THEN {value.v = 1} ELSE {}
          /\ ectx_call'.op = "get_u32" =>
                ectx_call'.ret =
                    IF EntriesOf(ectx, ectx_call'.key) = {} THEN {}
                    ELSE LET value == ectx.entries[CHOOSE i \in EntriesOf(ectx, ectx_call'.key) : TRUE].value
                         IN IF value.tag = "U32" THEN {value.v} ELSE {}]_vars

\* the context is full and get_u32 has returned None for a key that holds a
\* bool
C25_Witness ==
    /\ ~ectx_call.long
    /\ Context_len(ectx) = MAX_ENTRIES
    /\ ectx_call.op = "get_u32" /\ ectx_call.ret = {}
    /\ Context_get_value(ectx, ectx_call.key) = {ValBool(TRUE)}
    /\ \E i \in EntrySlots : ectx.entries[i].occupied /\ ectx.entries[i].key = <<1, 2>>

----------------------------------------------------------------------------
(* Desktop::draw (gui/desktop.rs) on framebuffers of 32 bits per pixel.  A  *)
(* pixel is <<colour, alpha byte>>: set_pixel writes the colour and alpha   *)
(* 0xFF, get_pixel reads the colour, copy_from copies the bytes.  The       *)
(* glyphs of the title and of the window contents are left out of the       *)
(* picture of a window.                                                     *)

FB_WIDTH == 5         \* 800 in the source: the width of both framebuffers
FB_HEIGHT == 4        \* 600 in the source
CURSOR_WIDTH == 3     \* 16 in the source; the top left corner of the bitmaps is used
CURSOR_HEIGHT == 3    \* 16 in the source
BORDER_WIDTH == 3

CURSOR_BITMAP ==
    <<32768, 49152, 57344, 61440, 63488, 64512, 65024, 65280,
      65408, 65472, 64512, 56832, 36608, 1920, 1920, 768>>

CURSOR_MASK ==
    <<49152, 57344, 61440, 63488, 64512, 65024, 65280, 65408,
      65472, 65504, 65472, 65408, 57280, 36800, 4032, 1920>>

Pos == (0..(FB_WIDTH - 1)) \X (0..(FB_HEIGHT - 1))

\* the static BACK_BUFFER_DATA: zeroed memory
Framebuffer_new == [p \in Pos |-> <<"BLACK", 0>>]

InBounds(x, y) == ~(x < 0 \/ y < 0 \/ x >= FB_WIDTH \/ y >= FB_HEIGHT)

set_pixel(fb, x, y, color) ==
    IF ~InBounds(x, y) THEN fb ELSE [fb EXCEPT ![<<x, y>>] = <<color, 255>>]

\* Option<Color>
get_pixel(fb, x, y) == IF ~InBounds(x, y) THEN {} ELSE {fb[<<x, y>>][1]}

\* `((x + width as i32) as u32).min(self.width)`: a negative sum is a large u32
ClipEnd(end, limit) == IF end < 0 THEN limit ELSE Min({end, limit})

fill_rect(fb, x, y, width, height, color) ==
    LET x0 == Max({x, 0})
        y0 == Max({y, 0})
        x1 == ClipEnd(x + width, FB_WIDTH)
        y1 == ClipEnd(y + height, FB_HEIGHT)
    IN IF x0 >= x1 \/ y0 >= y1 THEN fb
       ELSE [p \in Pos |-> IF p[1] >= x0 /\ p[1] < x1 /\ p[2] >= y0 /\ p[2] < y1
                           THEN <<color, 255>> ELSE fb[p]]

clear(fb, color) == fill_rect(fb, 0, 0, FB_WIDTH, FB_HEIGHT, color)

\* both buffers have the same width, height, bpp and pitch
copy_from(dst, src) == src

saturating_sub(a, b) == IF a < b THEN 0 ELSE a - b

Window_draw(w, fb) ==
    LET border == fill_rect(fb, w.x, w.y, w.width, w.height, "border")
        title == fill_rect(border, w.x + 1, w.y + 1, w.width - 2, TITLE_HEIGHT - 1,
                           IF w.focused THEN "title_active" ELSE "title_inactive")
    IN fill_rect(title, w.x + BORDER_WIDTH, w.y + TITLE_HEIGHT,
                 saturating_sub(w.width, BORDER_WIDTH * 2),
                 saturating_sub(w.height, TITLE_HEIGHT + BORDER_WIDTH), "window_bg")

\* the loop of render_to_back_buffer from z-order position i down to 0
RECURSIVE DrawWindowsFrom(_, _, _)
DrawWindowsFrom(d, i, fb) ==
    IF i < 0 THEN fb
    ELSE LET w == d.windows[d.z_order[i]]
         IN DrawWindowsFrom(d, i - 1, IF w.occupied THEN Window_draw(w, fb) ELSE fb)

render_to_back_buffer(d, back_buffer) ==
    DrawWindowsFrom(d, d.window_count - 1, clear(back_buffer, "desktop_bg"))

\* Desktop::new, then init_with_hw_cursor
Cursor_new(hw_cursor) ==
    [hw_cursor |-> hw_cursor,
     cursor_save |-> [idx \in 0..(CURSOR_WIDTH * CURSOR_HEIGHT - 1) |-> "BLACK"],
     cursor_save_x |-> 0 - 1,
     cursor_save_y |-> 0 - 1]

CursorArea == (0..(CURSOR_WIDTH - 1)) \X (0..(CURSOR_HEIGHT - 1))

save_cursor_area(d, c, fb) ==
    [c EXCEPT !.cursor_save = [idx \in DOMAIN c.cursor_save |->
                                  LET cx == idx % CURSOR_WIDTH
                                      cy == idx \div CURSOR_WIDTH
                                  IN unwrap_or(get_pixel(fb, d.mouse_x + cx, d.mouse_y + cy),
                                               "BLACK")],
              !.cursor_save_x = d.mouse_x,
              !.cursor_save_y = d.mouse_y]

restore_cursor_area(c, fb) ==
    IF c.cursor_save_x < 0 THEN fb
    ELSE [p \in Pos |->
             LET cx == p[1] - c.cursor_save_x
                 cy == p[2] - c.cursor_save_y
             IN IF <<cx, cy>> \in CursorArea
                THEN <<c.cursor_save[cy * CURSOR_WIDTH + cx], 255>>
                ELSE fb[p]]

\* bit (15 - cx) of row cy of a cursor bitmap
CursorBit(bitmap, cx, cy) == (bitmap[cy + 1] \div (2 ^ (15 - cx))) % 2

\* the overlay: the pixels of the mask, white where the bitmap has a bit
draw_cursor_pixels(d, fb) ==
    [p \in Pos |->
        LET cx == p[1] - d.mouse_x
            cy == p[2] - d.mouse_y
        IN IF <<cx, cy>> \in CursorArea /\ CursorBit(CURSOR_MASK, cx, cy) # 0
           THEN <<IF CursorBit(CURSOR_BITMAP, cx, cy) # 0 THEN "WHITE" ELSE "BLACK", 255>>
           ELSE fb[p]]

\* returns the cursor fields and the framebuffer
draw_cursor(d, c, fb) ==
    [c |-> save_cursor_area(d, c, fb), fb |-> draw_cursor_pixels(d, fb)]

\* the restore step is left out
Desktop_draw_NoRestore(d, c, back_buffer, front_buffer) ==
    LET restored == front_buffer
        back1 == IF d.dirty THEN render_to_back_buffer(d, back_buffer) ELSE back_buffer
        front1 == IF d.dirty THEN copy_from(restored, back1) ELSE restored
        drawn == IF ~c.hw_cursor THEN draw_cursor(d, c, front1) ELSE [c |-> c, fb |-> front1]
    IN [d |-> [d EXCEPT !.dirty = FALSE], c |-> drawn.c, back |-> back1,
        front |-> drawn.fb, before |-> front1]

\* Desktop::draw; `before` is the front buffer when draw_cursor is entered
Desktop_draw(d, c, back_buffer, front_buffer) ==
    LET restored == IF ~c.hw_cursor THEN restore_cursor_area(c, front_buffer)
                    ELSE front_buffer
        back1 == IF d.dirty THEN render_to_back_buffer(d, back_buffer) ELSE back_buffer
        front1 == IF d.dirty THEN copy_from(restored, back1) ELSE restored
        drawn == IF ~c.hw_cursor THEN draw_cursor(d, c, front1) ELSE [c |-> c, fb |-> front1]
    IN [d |-> [d EXCEPT !.dirty = FALSE], c |-> drawn.c, back |-> back1,
        front |-> drawn.fb, before |-> front1]

----------------------------------------------------------------------------
(* The desktop of run_gui on a small screen: windows are created, the mouse *)
(* moves, presses and releases its left button, and the desktop is drawn.   *)

DrawWindows == 1      \* the windows created before the desktop is drawn
DrawPresses == 1      \* the presses of the left button

\* a window that reaches into the screen from the right
DrawArgs == { [x |-> 2, y |-> 1, width |-> 100, height |-> 50] }

\* a corner, a point inside (the cursor is cut off by the screen's edge),
\* and a point beyond the screen
DrawPoints == { [x |-> 0, y |-> 0], [x |-> 3, y |-> 2], [x |-> FB_WIDTH + 2, y |-> 1] }

NoDraw == [op |-> "new", prev |-> "new", presses |-> 0, front_in |-> Framebuffer_new,
           before |-> Framebuffer_new]

DrawIdle ==
    /\ front = Framebuffer_new
    /\ back = Framebuffer_new
    /\ cursor = Cursor_new(FALSE)
    /\ draw_call = NoDraw

DrawInit ==
    /\ desktop = Desktop_new(FB_WIDTH, FB_HEIGHT)
    /\ last_call = [op |-> "new", valid |-> FALSE, free |-> TRUE, ret |-> {}, prev_max |-> 0]
    /\ returned = {}
    /\ front = Framebuffer_new
    /\ back = Framebuffer_new
    /\ cursor \in {Cursor_new(hw_cursor) : hw_cursor \in BOOLEAN}
    /\ draw_call = NoDraw

\* a call that is not draw: the buffers and the cursor fields are not touched
NotDraw(presses) ==
    /\ draw_call' = [op |-> "other", prev |-> draw_call.op,
                     presses |-> draw_call.presses + presses,
                     front_in |-> Framebuffer_new, before |-> Framebuffer_new]
    /\ UNCHANGED <<front, back, cursor>>

Draw ==
    /\ LET r == Desktop_draw(desktop, cursor, back, front)
       IN /\ desktop' = r.d
          /\ cursor' = r.c
          /\ back' = r.back
          /\ front' = r.front
          /\ draw_call' = [op |-> "draw", prev |-> draw_call.op,
                           presses |-> draw_call.presses, front_in |-> front,
                           before |-> r.before]
    /\ last_call' = OtherCall
    /\ returned' = returned

DrawNext ==
    \/ \E a \in DrawArgs : desktop.next_id <= DrawWindows /\ CreateWindow(a) /\ NotDraw(0)
    \/ \E p \in DrawPoints : MouseMove(p) /\ NotDraw(0)
    \/ draw_call.presses < DrawPresses /\ MouseButton("Left", TRUE) /\ NotDraw(1)
    \/ MouseButton("Left", FALSE) /\ NotDraw(0)
    \/ Draw

\* the positions the cursor overlay covers at the current mouse position
Overlay ==
    {p \in Pos : /\ <<p[1] - desktop.mouse_x, p[2] - desktop.mouse_y>> \in CursorArea
                 /\ CursorBit(CURSOR_MASK, p[1] - desktop.mouse_x,
                              p[2] - desktop.mouse_y) # 0}

AfterSoftwareDraw == draw_call.op = "draw" /\ ~cursor.hw_cursor

\* C22: with the software cursor, after every draw: each front-buffer pixel
\* outside the cursor overlay at the current mouse position equals the pixel
\* of the back buffer as last rendered; the saved cursor area is placed at the
\* mouse position and holds what the front buffer held there before the
\* overlay was drawn; and a draw that directly follows a draw leaves the front
\* buffer as it was.
C22_DrawKeepsFront ==
    AfterSoftwareDraw =>
        /\ \A p \in Pos \ Overlay : front[p] = back[p]
        /\ cursor.cursor_save_x = desktop.mouse_x
        /\ cursor.cursor_save_y = desktop.mouse_y
        /\ \A a \in CursorArea :
              InBounds(desktop.mouse_x + a[1], desktop.mouse_y + a[2]) =>
                  cursor.cursor_save[a[2] * CURSOR_WIDTH + a[1]] =
                      draw_call.before[<<desktop.mouse_x + a[1], desktop.mouse_y + a[2]>>][1]
        /\ draw_call.before = back
        /\ (draw_call.prev = "draw") => (front = draw_call.front_in)

\* the mouse has moved between two draws with nothing to render, and the
\* overlay leaves a position of the saved area uncovered
C22_Witness ==
    /\ AfterSoftwareDraw
    /\ draw_call.prev = "other"
    /\ draw_call.front_in # front
    /\ desktop.window_count > 0
    /\ \E p \in Pos \ Overlay :
          /\ <<p[1] - desktop.mouse_x, p[2] - desktop.mouse_y>> \in CursorArea
          /\ draw_call.front_in[p] # front[p]

----------------------------------------------------------------------------
(* Framebuffer::fill_rect (gui/framebuffer.rs) on a buffer that has just    *)
(* been cleared, as render_to_back_buffer clears it before the windows are  *)
(* drawn.  A width or height of 2^31 or more, which `as i32` turns          *)
(* negative, is beyond the screen sizes of the model.                       *)

\* rectangles that start and end on either side of every edge of the screen
FillXs == (0 - FB_WIDTH - 2)..(FB_WIDTH + 1)
FillYs == (0 - FB_HEIGHT - 2)..(FB_HEIGHT + 1)
FillWidths == 0..(FB_WIDTH + 2)
FillHeights == 0..(FB_HEIGHT + 2)

FillIdle ==
    /\ fill_fb = Framebuffer_new
    /\ fill_call = [op |-> "new", x |-> 0, y |-> 0, width |-> 0, height |-> 0]

\* render_to_back_buffer starts with clear
Clear ==
    /\ fill_fb' = clear(fill_fb, "desktop_bg")
    /\ fill_call' = [op |-> "clear", x |-> 0, y |-> 0, width |-> 0, height |-> 0]

\* a rectangle is filled on the cleared buffer
FillRect(x, y, width, height) ==
    /\ fill_call.op = "clear"
    /\ fill_fb' = fill_rect(fill_fb, x, y, width, height, "window_bg")
    /\ fill_call' = [op |-> "fill_rect", x |-> x, y |-> y,
                     width |-> width, height |-> height]

FillNext ==
    \/ Clear
    \/ \E x \in FillXs, y \in FillYs, width \in FillWidths, height \in FillHeights :
          FillRect(x, y, width, height)

\* the pixels of the screen inside [x, x + width) x [y, y + height)
InRect(p, c) ==
    /\ p[1] >= c.x /\ p[1] < c.x + c.width
    /\ p[2] >= c.y /\ p[2] < c.y + c.height

\* C39: for all signed x, y and unsigned width, height, fill_rect changes
\* exactly the pixels of the intersection of [x, x + width) x [y, y + height)
\* with the screen; a rectangle whose right or bottom edge is at a negative
\* coordinate changes no pixel.
C39_FillRectClips ==
    fill_call.op = "fill_rect" =>
        \A p \in Pos :
            fill_fb[p] = IF InRect(p, fill_call) THEN <<"window_bg", 255>>
                         ELSE <<"desktop_bg", 255>>

\* the same, for rectangles whose right and bottom edges are not negative
FillRectClipsRightOfOrigin ==
    (fill_call.x + fill_call.width >= 0 /\ fill_call.y + fill_call.height >= 0) =>
        C39_FillRectClips

----------------------------------------------------------------------------
(* Physical memory manager (mm/pmm.rs).  PAGE_FRAMES, FREE_LIST and STATS   *)
(* are the fields of the record `pmm`; a frame pointer is its page index.   *)

PAGE_SIZE == 4096

MAX_PAGE_FRAMES == 6  \* 65536 in the source; the frame array is scaled down
LOW_PAGES == 1        \* 256 in the source: the pages of the low 1 MiB
KERNEL_END == 3       \* 512 in the source: pages [LOW_PAGES, KERNEL_END) hold the kernel

Frames == 0..(MAX_PAGE_FRAMES - 1)

PageFrame_new == [free_node |-> IntrusiveNode_new, flags |-> {}, ref_count |-> 0]

is_free(frame) == "FREE" \in frame.flags

\* the FREE flag survives the allocation
allocate_KeepsFree(frame) == [frame EXCEPT !.ref_count = 1]

allocate(frame) == [frame EXCEPT !.flags = @ \ {"FREE"}, !.ref_count = 1]

free(frame) == [frame EXCEPT !.flags = @ \cup {"FREE"}, !.ref_count = 0]

FrameNodes(frames) == [i \in DOMAIN frames |-> frames[i].free_node]

WithNodes(frames, nodes) ==
    [i \in DOMAIN frames |-> [frames[i] EXCEPT !.free_node = nodes[i]]]

\* IntrusiveStack::push / pop on FREE_LIST
StackPush(p, page_idx) ==
    LET r == push_front(p.FREE_LIST, FrameNodes(p.frames), page_idx)
    IN [p EXCEPT !.FREE_LIST = r.list, !.frames = WithNodes(p.frames, r.nodes)]

\* E820 maps handed over by the boot loader: entries <<base, length, type>>
\* in bytes, type 1 = Usable.  Usable regions do not overlap.
E820Maps ==
    { << <<0, MAX_PAGE_FRAMES * PAGE_SIZE, 1>> >>,
      << <<0, KERNEL_END * PAGE_SIZE, 1>>,
         <<KERNEL_END * PAGE_SIZE, PAGE_SIZE, 2>>,
         <<(KERNEL_END + 1) * PAGE_SIZE + 100, (MAX_PAGE_FRAMES + 1) * PAGE_SIZE, 1>> >>,
      << <<(LOW_PAGES + 1) * PAGE_SIZE, (MAX_PAGE_FRAMES - LOW_PAGES - 2) * PAGE_SIZE + 17, 1>>,
         <<PAGE_SIZE \div 2, 16, 1>> >> }

RECURSIVE InitPages(_, _, _)
InitPages(p, page_idx, end_page) ==
    IF page_idx >= end_page \/ page_idx >= MAX_PAGE_FRAMES THEN p
    ELSE IF page_idx < LOW_PAGES THEN InitPages(p, page_idx + 1, end_page)
    ELSE IF page_idx >= LOW_PAGES /\ page_idx < KERNEL_END
    THEN InitPages([p EXCEPT !.frames[page_idx].flags = {"KERNEL"},
                             !.kernel_pages = @ + 1],
                   page_idx + 1, end_page)
    ELSE InitPages([StackPush([p EXCEPT !.frames[page_idx].flags = {"FREE"}], page_idx)
                       EXCEPT !.free_pages = @ + 1],
                   page_idx + 1, end_page)

RECURSIVE InitEntries(_, _, _)
InitEntries(p, e820_map, i) ==
    IF i > Len(e820_map) THEN p
    ELSE LET base == e820_map[i][1]
             end == e820_map[i][1] + e820_map[i][2]
             start_addr == ((base + PAGE_SIZE - 1) \div PAGE_SIZE) * PAGE_SIZE
             end_addr == (end \div PAGE_SIZE) * PAGE_SIZE
         IN IF e820_map[i][3] # 1 \/ start_addr >= end_addr
            THEN InitEntries(p, e820_map, i + 1)
            ELSE InitEntries(InitPages(p, start_addr \div PAGE_SIZE,
                                       end_addr \div PAGE_SIZE),
                             e820_map, i + 1)

init(e820_map) ==
    LET p0 == [frames |-> [i \in Frames |-> [PageFrame_new EXCEPT !.flags = {"RESERVED"}]],
               FREE_LIST |-> IntrusiveList_new,
               free_pages |-> 0,
               kernel_pages |-> 0,
               reserved_pages |-> 0,
               total_pages |-> 0]
        p1 == InitEntries(p0, e820_map, 1)
    IN [p1 EXCEPT !.total_pages = p1.free_pages + p1.kernel_pages + p1.reserved_pages]

\* the frame at the bottom of the stack is handed out
alloc_page_FromBottom(p) ==
    LET r == pop_back(p.FREE_LIST, FrameNodes(p.frames))
    IN IF r.ret = NULL
       THEN [pmm |-> p, ret |-> NULL]
       ELSE [pmm |-> [p EXCEPT !.FREE_LIST = r.list,
                               !.frames = [WithNodes(p.frames, r.nodes)
                                              EXCEPT ![r.ret] = allocate(@)],
                               !.free_pages = @ - 1],
             ret |-> r.ret * PAGE_SIZE]

\* returns the new state and Some(address), NULL standing for None
alloc_page(p) ==
    LET r == pop_front(p.FREE_LIST, FrameNodes(p.frames))
    IN IF r.ret = NULL
       THEN [pmm |-> p, ret |-> NULL]
       ELSE [pmm |-> [p EXCEPT !.FREE_LIST = r.list,
                               !.frames = [WithNodes(p.frames, r.nodes)
                                              EXCEPT ![r.ret] = allocate(@)],
                               !.free_pages = @ - 1],
             ret |-> r.ret * PAGE_SIZE]

\* the test for an already free frame is left out
free_page_NoCheck(p, phys_addr) ==
    LET page_idx == phys_addr \div PAGE_SIZE
    IN IF page_idx >= MAX_PAGE_FRAMES THEN p
       ELSE [StackPush([p EXCEPT !.frames[page_idx] = free(@)], page_idx)
                EXCEPT !.free_pages = @ + 1]

free_page(p, phys_addr) ==
    LET page_idx == phys_addr \div PAGE_SIZE
    IN IF page_idx >= MAX_PAGE_FRAMES THEN p
       ELSE IF is_free(p.frames[page_idx]) THEN p
       ELSE [StackPush([p EXCEPT !.frames[page_idx] = free(@)], page_idx)
                EXCEPT !.free_pages = @ + 1]

\* the physical addresses free_page is called with: every page start up to
\* the first page beyond the frame array, and addresses inside a page
FreeAddrs ==
    {page * PAGE_SIZE : page \in 0..MAX_PAGE_FRAMES}
        \cup {KERNEL_END * PAGE_SIZE + 1, (MAX_PAGE_FRAMES - 1) * PAGE_SIZE + PAGE_SIZE - 1}

PmmIdle ==
    /\ pmm = init(<< >>)
    /\ pmm_call = [op |-> "init", arg |-> NULL, ret |-> NULL]
    /\ pmm_live = {}

PmmInit ==
    /\ \E e820_map \in E820Maps : pmm = init(e820_map)
    /\ pmm_call = [op |-> "init", arg |-> NULL, ret |-> NULL]
    /\ pmm_live = {}

AllocPage ==
    LET r == alloc_page(pmm)
    IN /\ pmm' = r.pmm
       /\ pmm_call' = [op |-> "alloc_page", arg |-> NULL, ret |-> r.ret]
       /\ pmm_live' = IF r.ret = NULL THEN pmm_live ELSE pmm_live \cup {r.ret \div PAGE_SIZE}

FreePage(phys_addr) ==
    /\ pmm' = free_page(pmm, phys_addr)
    /\ pmm_call' = [op |-> "free_page", arg |-> phys_addr, ret |-> NULL]
    /\ pmm_live' = pmm_live \ {phys_addr \div PAGE_SIZE}

PmmNext ==
    \/ AllocPage
    \/ \E phys_addr \in FreeAddrs : FreePage(phys_addr)

\* the frames on the free stack, top first
FreeStack(p) == Reach(FrameNodes(p.frames), p.FREE_LIST.head, MAX_PAGE_FRAMES + 1)

C12_ReservedNeverFree ==
    /\ \A f \in Range(FreeStack(pmm)) :
          pmm.frames[f].flags \cap {"RESERVED", "KERNEL"} = {}
    /\ (pmm_call.op = "alloc_page" /\ pmm_call.ret # NULL) =>
          pmm.frames[pmm_call.ret \div PAGE_SIZE].flags \cap {"RESERVED", "KERNEL"} = {}

\* C13: free_page of a frame that is already FREE changes nothing: stack,
\* flags, reference counts and counters are as before.
C13_FreeingTwiceIsNoOp ==
    [][(/\ pmm_call'.op = "free_page"
        /\ pmm_call'.arg \div PAGE_SIZE \in Frames
        /\ is_free(pmm.frames[pmm_call'.arg \div PAGE_SIZE])) => pmm' = pmm]_vars

\* a frame that is FREE and below the top of the stack has just been freed again
C13_Witness ==
    /\ pmm_call.op = "free_page"
    /\ pmm_call.arg \div PAGE_SIZE \in Frames
    /\ is_free(pmm.frames[pmm_call.arg \div PAGE_SIZE])
    /\ pmm.FREE_LIST.head # pmm_call.arg \div PAGE_SIZE
    /\ pmm_live # {}

free_page_count(p) == p.free_pages

\* the counter, the stack and the FREE flags name the same frames
ExactCount(p) ==
    /\ free_page_count(p) = Len(FreeStack(p))
    /\ Cardinality(Range(FreeStack(p))) = Len(FreeStack(p))
    /\ Range(FreeStack(p)) = {f \in Frames : is_free(p.frames[f])}

\* alloc_page right after free_page of a page that is handed out returns it
Lifo(p, live) ==
    \A f \in live :
        alloc_page(free_page(p, f * PAGE_SIZE)).ret = f * PAGE_SIZE

\* free_page_count plus the number of pages handed out
Balance(p, live) == free_page_count(p) + Cardinality(live)

----------------------------------------------------------------------------
(* An IntrusiveList driven through its five operations (mm/intrusive.rs).   *)
(* push is given items that are in no list, remove items that are in it.    *)

MaxItems == 4

Items == 1..MaxItems

Members == Range(Reach(inodes, ilist.head, MaxItems + 1))

IListIdle ==
    /\ ilist = IntrusiveList_new
    /\ inodes = [i \in Items |-> IntrusiveNode_new]
    /\ il_call = [op |-> "new", item |-> NULL]

PushFront(item) ==
    /\ item \notin Members
    /\ LET r == push_front(ilist, inodes, item)
       IN /\ ilist' = r.list
          /\ inodes' = r.nodes
    /\ il_call' = [op |-> "push_front", item |-> item]

PushBack(item) ==
    /\ item \notin Members
    /\ LET r == push_back(ilist, inodes, item)
       IN /\ ilist' = r.list
          /\ inodes' = r.nodes
    /\ il_call' = [op |-> "push_back", item |-> item]

PopFront ==
    LET r == pop_front(ilist, inodes)
    IN /\ ilist' = r.list
       /\ inodes' = r.nodes
       /\ il_call' = [op |-> "pop_front", item |-> r.ret]

PopBack ==
    LET r == pop_back(ilist, inodes)
    IN /\ ilist' = r.list
       /\ inodes' = r.nodes
       /\ il_call' = [op |-> "pop_back", item |-> r.ret]

Remove(item) ==
    /\ item \in Members
    /\ LET r == remove(ilist, inodes, item)
       IN /\ ilist' = r.list
          /\ inodes' = r.nodes
    /\ il_call' = [op |-> "remove", item |-> item]

IListNext ==
    \/ \E item \in Items : PushFront(item)
    \/ \E item \in Items : PushBack(item)
    \/ PopFront
    \/ PopBack
    \/ \E item \in Items : Remove(item)

\* C14: len is the number of nodes reachable from head; head.prev and
\* tail.next are null; head is null iff tail is null iff len = 0; the links
\* of neighbouring members mirror each other; a node returned by pop or
\* given to remove has both links null afterwards.
C14_ListWellFormed ==
    LET chain == Reach(inodes, ilist.head, MaxItems + 1)
    IN /\ ilist.len = Len(chain)
       /\ Len(chain) <= MaxItems
       /\ Cardinality(Range(chain)) = Len(chain)
       /\ ilist.head # NULL => inodes[ilist.head].prev = NULL
       /\ ilist.tail # NULL => inodes[ilist.tail].next = NULL
       /\ (ilist.head = NULL) = (ilist.tail = NULL)
       /\ (ilist.head = NULL) = (ilist.len = 0)
       /\ ilist.tail # NULL => ilist.tail = chain[Len(chain)]
       /\ \A n \in Range(chain) :
             /\ inodes[n].prev = NULL \/ inodes[inodes[n].prev].next = n
             /\ inodes[n].next = NULL \/ inodes[inodes[n].next].prev = n
       /\ (il_call.op \in {"pop_front", "pop_back", "remove"} /\ il_call.item # NULL) =>
             /\ inodes[il_call.item] = IntrusiveNode_new
             /\ il_call.item \notin Range(chain)

\* a member has just been removed from a list that keeps three others
C14_Witness ==
    /\ il_call.op = "remove"
    /\ ilist.len = 3
    /\ ilist.head > ilist.tail

\* C36: is_linked is true of every node that is a member of the list, the
\* only element of a one-element list included, and false of every node
\* that is in no list, so that the check push makes of its argument finds
\* every node that is already in the list.
C36_LinkedIffMember ==
    \A item \in Items : is_linked(inodes[item]) = (item \in Members)

----------------------------------------------------------------------------
(* Scheduler (sched/mod.rs).  A task pointer is the task's pid; the record  *)
(* `sched` holds the Task structures and the SCHEDULER fields.  cpu_time    *)
(* only counts and is left out.                                             *)

NUM_PRIORITIES == 5
TIME_SLICE == 10

MaxTasks == 3

\* schedule is called while context_switches is below this
MaxSwitches == 2

Pids == 1..MaxTasks

\* the priorities Task::new is given: Idle, Normal, High
TaskPriorities == {0, 2, 3}

NoTask == [run_queue_node |-> IntrusiveNode_new, state |-> "None", priority |-> 0,
           time_slice |-> 0]

Task_new(priority) ==
    [run_queue_node |-> IntrusiveNode_new, state |-> "Ready", priority |-> priority,
     time_slice |-> TIME_SLICE]

Scheduler_new ==
    [tasks |-> [pid \in Pids |-> NoTask],
     next_pid |-> 1,
     run_queues |-> [priority \in 0..(NUM_PRIORITIES - 1) |-> IntrusiveList_new],
     current |-> NULL,
     idle_task |-> NULL,
     ready_count |-> 0,
     context_switches |-> 0]

RunNodes(tasks) == [pid \in DOMAIN tasks |-> tasks[pid].run_queue_node]

WithRunNodes(tasks, nodes) ==
    [pid \in DOMAIN tasks |-> [tasks[pid] EXCEPT !.run_queue_node = nodes[pid]]]

\* the task is put at the front of the run queue of its priority
enqueue_Front(s, task) ==
    LET priority == s.tasks[task].priority
        r == push_front(s.run_queues[priority], RunNodes(s.tasks), task)
    IN [s EXCEPT !.run_queues[priority] = r.list,
                 !.tasks = WithRunNodes(s.tasks, r.nodes),
                 !.ready_count = @ + 1]

enqueue(s, task) ==
    LET priority == s.tasks[task].priority
        r == push_back(s.run_queues[priority], RunNodes(s.tasks), task)
    IN [s EXCEPT !.run_queues[priority] = r.list,
                 !.tasks = WithRunNodes(s.tasks, r.nodes),
                 !.ready_count = @ + 1]

\* returns the scheduler and the picked task, NULL standing for None
RECURSIVE pick_next_from(_, _)
\* the picked task leaves its queue and ready_count stays
pick_next_from_KeepsCount(s, priority) ==
    IF priority < 0 THEN [s |-> s, ret |-> s.idle_task]
    ELSE LET r == pop_front(s.run_queues[priority], RunNodes(s.tasks))
         IN IF r.ret # NULL
            THEN [s |-> [s EXCEPT !.run_queues[priority] = r.list,
                                  !.tasks = WithRunNodes(s.tasks, r.nodes)],
                  ret |-> r.ret]
            ELSE pick_next_from(s, priority - 1)

pick_next_from(s, priority) ==
    IF priority < 0 THEN [s |-> s, ret |-> s.idle_task]
    ELSE LET r == pop_front(s.run_queues[priority], RunNodes(s.tasks))
         IN IF r.ret # NULL
            THEN [s |-> [s EXCEPT !.run_queues[priority] = r.list,
                                  !.tasks = WithRunNodes(s.tasks, r.nodes),
                                  !.ready_count = @ - 1],
                  ret |-> r.ret]
            ELSE pick_next_from(s, priority - 1)

pick_next(s) == pick_next_from(s, NUM_PRIORITIES - 1)

set_idle(s, task) == [s EXCEPT !.idle_task = task]

record_context_switch(s) == [s EXCEPT !.context_switches = @ + 1]

\* returns the scheduler and whether a reschedule is needed
timer_tick_inner(s) ==
    IF s.current # NULL
    THEN LET slice == s.tasks[s.current].time_slice
             left == IF slice > 0 THEN slice - 1 ELSE slice
         IN [s |-> [s EXCEPT !.tasks[s.current].time_slice = left], ret |-> left = 0]
    ELSE [s |-> s, ret |-> FALSE]

\* the preempted task is put back on its queue still marked Running
requeue_old_KeepsRunning(s) ==
    IF s.current # NULL /\ s.tasks[s.current].state = "Running"
    THEN enqueue([s EXCEPT !.tasks[s.current].time_slice = TIME_SLICE], s.current)
    ELSE s

requeue_old(s) ==
    IF s.current # NULL /\ s.tasks[s.current].state = "Running"
    THEN enqueue([s EXCEPT !.tasks[s.current].state = "Ready",
                           !.tasks[s.current].time_slice = TIME_SLICE], s.current)
    ELSE s

schedule(s) ==
    LET r == pick_next(requeue_old(s))
    IN IF r.ret # NULL
       THEN record_context_switch([r.s EXCEPT !.tasks[r.ret].state = "Running",
                                              !.current = r.ret])
       ELSE r.s

timer_tick(s) ==
    LET r == timer_tick_inner(s)
    IN IF r.ret THEN schedule(r.s) ELSE r.s

\* the tasks linked into the run queue of a priority, front first
Queue(s, priority) == Reach(RunNodes(s.tasks), s.run_queues[priority].head, MaxTasks + 1)

Queued(s) == UNION {Range(Queue(s, priority)) : priority \in 0..(NUM_PRIORITIES - 1)}

SchedIdle == sched = Scheduler_new

TaskNew(priority) ==
    /\ sched.next_pid <= MaxTasks
    /\ sched' = [sched EXCEPT !.tasks[sched.next_pid] = Task_new(priority),
                              !.next_pid = @ + 1]

SetIdle(task) ==
    /\ sched.tasks[task].state # "None"
    /\ sched' = set_idle(sched, task)

\* enqueue is given tasks that are Ready and in no run queue
Enqueue(task) ==
    /\ sched.tasks[task].state = "Ready"
    /\ task \notin Queued(sched)
    /\ sched' = enqueue(sched, task)

Schedule ==
    /\ sched.context_switches < MaxSwitches
    /\ sched' = schedule(sched)

TimerTick ==
    /\ sched.context_switches < MaxSwitches
    /\ sched' = timer_tick(sched)

SchedNext ==
    \/ \E priority \in TaskPriorities : TaskNew(priority)
    \/ \E task \in Pids : SetIdle(task)
    \/ \E task \in Pids : Enqueue(task)
    \/ Schedule
    \/ TimerTick

InQueues(task) == {priority \in 0..(NUM_PRIORITIES - 1) : task \in Range(Queue(sched, priority))}

RunningTasks == {task \in Pids : sched.tasks[task].state = "Running"}

NonEmpty(s) == {priority \in 0..(NUM_PRIORITIES - 1) : Queue(s, priority) # <<>>}

\* what pick_next does to a scheduler s
PickNextContract(s) ==
    LET r == pick_next(s)
    IN IF NonEmpty(s) = {}
       THEN r.ret = s.idle_task /\ r.s = s
       ELSE LET top == CHOOSE p \in NonEmpty(s) : \A q \in NonEmpty(s) : q <= p
            IN /\ r.ret = Head(Queue(s, top))
               /\ Queue(r.s, top) = Tail(Queue(s, top))
               /\ \A p \in (0..(NUM_PRIORITIES - 1)) \ {top} : Queue(r.s, p) = Queue(s, p)
               /\ r.s.ready_count = s.ready_count - 1

\* C30: pick_next returns the task enqueued earliest among the tasks of the
\* highest non-empty priority (enqueue appends at the back of the queue of
\* the task's priority, pick_next takes the front), removes exactly that task
\* and decrements ready_count by one; with all five queues empty it returns
\* the idle task and changes nothing.  schedule calls pick_next after it has
\* put the preempted task back.
C30_PickNext ==
    /\ PickNextContract(sched)
    /\ PickNextContract(requeue_old(sched))
    /\ \A task \in Pids :
          (sched.tasks[task].state = "Ready" /\ task \notin Queued(sched)) =>
              LET priority == sched.tasks[task].priority
                  s == enqueue(sched, task)
              IN /\ Queue(s, priority) = Append(Queue(sched, priority), task)
                 /\ \A p \in (0..(NUM_PRIORITIES - 1)) \ {priority} :
                       Queue(s, p) = Queue(sched, p)

\* schedule has picked the first of two tasks of the higher priority while a
\* task of a lower priority waits
C30_Witness ==
    /\ sched.current # NULL
    /\ sched.tasks[sched.current].state = "Running"
    /\ \E task \in Pids \ {sched.current} :
          /\ sched.tasks[task].priority = sched.tasks[sched.current].priority
          /\ Queue(sched, sched.tasks[task].priority) = <<task>>
          /\ sched.current < task
    /\ \E priority \in 0..(NUM_PRIORITIES - 1) :
          /\ priority < sched.tasks[sched.current].priority
          /\ Queue(sched, priority) # <<>>

----------------------------------------------------------------------------
(* Preemption by the timer (sched/mod.rs, timer_tick and schedule).  Tasks  *)
(* are created, enqueued and scheduled; from the first tick on only the     *)
(* timer interrupt calls the scheduler.  `rr` counts what the ticks did.    *)

\* the timer is followed through this many slice expirations
MaxExpiries == 3

RobinIdle ==
    rr = [phase |-> "setup", ran |-> 0, expiries |-> 0, waited |-> [task \in Pids |-> 0]]

RobinInit == SchedIdle /\ RobinIdle

\* set_idle has no caller in the kernel: idle_task stays None
RobinSetup ==
    /\ rr.phase = "setup"
    /\ \/ \E priority \in TaskPriorities : TaskNew(priority)
       \/ \E task \in Pids : Enqueue(task)
       \/ Schedule
    /\ UNCHANGED rr

\* the timer interrupt: sched::timer_tick
RobinTick ==
    /\ rr.expiries < MaxExpiries
    /\ sched' = timer_tick(sched)
    /\ LET expired == timer_tick_inner(sched).ret
       IN rr' = [phase |-> "ticks",
                 ran |-> IF expired THEN 0
                         ELSE IF sched.current # NULL THEN rr.ran + 1 ELSE rr.ran,
                 expiries |-> IF expired THEN rr.expiries + 1 ELSE rr.expiries,
                 waited |-> [task \in Pids |->
                               IF task = sched'.current THEN 0
                               ELSE IF expired THEN rr.waited[task] + 1
                               ELSE rr.waited[task]]]

RobinNext == RobinSetup \/ RobinTick

\* the tasks that can run: the current one and the queued ones
Runnable(s) == Queued(s) \cup (IF s.current # NULL THEN {s.current} ELSE {})

\* the runnable tasks of the highest priority any runnable task has
TopTasks(s) ==
    {task \in Runnable(s) :
        \A other \in Runnable(s) : s.tasks[other].priority <= s.tasks[task].priority}

\* the run queues of s once task cur is appended to the queue of its priority
QueuesWith(s, cur) ==
    [p \in 0..(NUM_PRIORITIES - 1) |->
        IF p = s.tasks[cur].priority THEN Append(Queue(s, p), cur) ELSE Queue(s, p)]

\* a tick that finds the slice of the current task used up
TickPreempts ==
    LET cur == sched.current
        q == QueuesWith(sched, cur)
        top == CHOOSE p \in DOMAIN q : q[p] # <<>> /\ \A o \in DOMAIN q : q[o] # <<>> => o <= p
        next == Head(q[top])
    IN /\ sched'.context_switches = sched.context_switches + 1
       /\ sched'.current = next
       /\ sched'.tasks[next].state = "Running"
       /\ sched'.tasks[cur].time_slice = TIME_SLICE
       /\ next # cur => sched'.tasks[cur].state = "Ready"
       /\ \A p \in DOMAIN q : Queue(sched', p) = IF p = top THEN Tail(q[p]) ELSE q[p]

\* a tick that leaves the current task running
TickKeeps ==
    sched' = [sched EXCEPT !.tasks[sched.current].time_slice = @ - 1]

RoundRobin(s, waited) ==
    LET k == Cardinality(TopTasks(s))
    IN k >= 2 => \A task \in TopTasks(s) : waited[task] <= k - 1

TickStep ==
    (rr'.phase = "ticks" /\ sched.current # NULL) =>
        /\ sched.tasks[sched.current].state = "Running"
        /\ sched.tasks[sched.current].time_slice = TIME_SLICE - rr.ran
        /\ IF rr.ran = TIME_SLICE - 1 THEN TickPreempts ELSE TickKeeps
        /\ RoundRobin(sched', rr'.waited)

\* C31: under timer ticks alone a Running task is preempted exactly at the
\* tenth tick of its slice: it is marked Ready, its slice is reset to 10 and
\* it is appended at the tail of the queue of its priority before the next
\* task is picked, and context_switches goes up by one; with k >= 2 runnable
\* tasks at the highest occupied priority none of them waits more than k
\* expirations to run again.
C31_Preemption == [][TickStep]_vars

\* three tasks of one priority have each run out a slice
C31_Witness ==
    /\ rr.phase = "ticks"
    /\ rr.expiries = 3
    /\ Cardinality(TopTasks(sched)) = 3
    /\ sched.context_switches = 4
    /\ \A task \in TopTasks(sched) : sched.tasks[task].time_slice = TIME_SLICE

----------------------------------------------------------------------------
(* PS/2 keyboard (drivers/keyboard.rs): process_scancode fills the ring,    *)
(* get_key drains it.                                                       *)

KEY_BUFFER_SIZE == 4  \* 16 in the source; the ring is scaled down

\* A and LeftShift pressed and released, CapsLock pressed, the E0 prefix
Scancodes == {30, 158, 42, 170, 58, 224}

\* KeyCode::from_scancode for the scancodes above; the source's table has the
\* same shape for the other keys
from_scancode(scancode) ==
    CASE scancode % 128 = 30 -> "A"
      [] scancode % 128 = 29 -> "LeftCtrl"
      [] scancode % 128 = 42 -> "LeftShift"
      [] scancode % 128 = 54 -> "RightShift"
      [] scancode % 128 = 56 -> "LeftAlt"
      [] scancode % 128 = 58 -> "CapsLock"
      [] OTHER -> "Unknown"

\* Option<char>, "" standing for None
to_ascii(keycode, shift) ==
    IF keycode = "A" THEN (IF shift THEN "A" ELSE "a") ELSE ""

NoKey == [keycode |-> "None", ascii |-> "", pressed |-> FALSE]

Keyboard_new ==
    [shift_pressed |-> FALSE, ctrl_pressed |-> FALSE, alt_pressed |-> FALSE,
     caps_lock |-> FALSE, extended |-> FALSE,
     buffer |-> [i \in 0..(KEY_BUFFER_SIZE - 1) |-> NoKey],
     write_idx |-> 0, read_idx |-> 0]

process_scancode(k, scancode) ==
    IF scancode = 224 THEN [k EXCEPT !.extended = TRUE]
    ELSE LET released == scancode >= 128
             keycode == from_scancode(scancode)
             k1 == CASE keycode \in {"LeftShift", "RightShift"} ->
                           [k EXCEPT !.shift_pressed = ~released]
                      [] keycode = "LeftCtrl" -> [k EXCEPT !.ctrl_pressed = ~released]
                      [] keycode = "LeftAlt" -> [k EXCEPT !.alt_pressed = ~released]
                      [] keycode = "CapsLock" /\ ~released ->
                           [k EXCEPT !.caps_lock = ~k.caps_lock]
                      [] OTHER -> k
             k2 == [k1 EXCEPT !.extended = FALSE]
             shift == k2.shift_pressed # k2.caps_lock
             key == [keycode |-> keycode, ascii |-> to_ascii(keycode, shift),
                     pressed |-> TRUE]
         IN IF ~released
            THEN [k2 EXCEPT !.buffer[k2.write_idx] = key,
                            !.write_idx = (k2.write_idx + 1) % KEY_BUFFER_SIZE]
            ELSE k2

\* returns the keyboard and the key, NoKey standing for None
get_key(k) ==
    IF k.read_idx = k.write_idx THEN [k |-> k, ret |-> NoKey]
    ELSE [k |-> [k EXCEPT !.buffer[k.read_idx] = NoKey,
                          !.read_idx = (k.read_idx + 1) % KEY_BUFFER_SIZE],
          ret |-> k.buffer[k.read_idx]]

\* the scancodes that move a modifier key: the shifts, ctrl and alt (the
\* right ctrl and alt send the same codes after an E0 prefix)
ModifierCodes == {42, 54, 29, 56}

\* the modifier keys held after a scancode: a key is its E0 prefix and its code
HeldAfter(held, extended, scancode) ==
    LET key == <<extended, scancode % 128>>
    IN IF scancode = 224 \/ key[2] \notin ModifierCodes THEN held
       ELSE IF scancode >= 128 THEN held \ {key}
       ELSE held \cup {key}

KbdIdle ==
    /\ kbd = Keyboard_new
    /\ kbd_pending = 0
    /\ kbd_held = {}

\* key presses arrive while fewer than KEY_BUFFER_SIZE + 1 are unread
ProcessScancode(scancode) ==
    /\ (scancode < 128 /\ scancode # 224) => kbd_pending <= KEY_BUFFER_SIZE
    /\ kbd' = process_scancode(kbd, scancode)
    /\ kbd_pending' = IF scancode < 128 THEN kbd_pending + 1 ELSE kbd_pending
    /\ kbd_held' = HeldAfter(kbd_held, kbd.extended, scancode)

GetKey ==
    LET r == get_key(kbd)
    IN /\ kbd' = r.k
       /\ kbd_pending' = IF r.ret # NoKey THEN kbd_pending - 1 ELSE kbd_pending
       /\ UNCHANGED kbd_held

KbdNext ==
    \/ \E scancode \in Scancodes : ProcessScancode(scancode)
    \/ GetKey

\* C16: read_idx = write_idx exactly when no buffered key press is waiting to
\* be returned by get_key.
C16_EmptyIffIndicesEqual ==
    (kbd.read_idx = kbd.write_idx) = (kbd_pending = 0)

\* A, both shifts and the left ctrl pressed and released, CapsLock pressed,
\* the E0 prefix
ModifierScancodes == {30, 42, 170, 54, 182, 29, 157, 58, 224}

\* the main loop takes each key press before the next one arrives
ModifierScancode(scancode) ==
    /\ (scancode < 128 /\ scancode # 224) => kbd_pending = 0
    /\ ProcessScancode(scancode)

ModifiersNext ==
    \/ \E scancode \in ModifierScancodes : ModifierScancode(scancode)
    \/ GetKey

Held(codes) == \E key \in kbd_held : key[2] \in codes

\* each flag is set exactly while a key of its kind is held
FlagsTrackKeys ==
    /\ kbd.shift_pressed = Held({42, 54})
    /\ kbd.ctrl_pressed = Held({29})
    /\ kbd.alt_pressed = Held({56})

\* what a step does to the caps-lock flag and to the ring
CapsAndAscii ==
    /\ kbd'.caps_lock # kbd.caps_lock => kbd' = process_scancode(kbd, 58)
    /\ kbd'.write_idx # kbd.write_idx =>
          LET key == kbd'.buffer[kbd.write_idx]
          IN key.ascii = to_ascii(key.keycode, kbd'.shift_pressed # kbd'.caps_lock)

\* C33: the shift, ctrl and alt flags are each true exactly while at least
\* one key of that kind is held, the caps-lock flag changes only on a
\* CapsLock press, and the ASCII value buffered for a press is computed from
\* the flags as they stand at that press.
C33_ModifierFlags == []FlagsTrackKeys /\ [][CapsAndAscii]_vars

----------------------------------------------------------------------------
(* Pointing devices: the PS/2 mouse (drivers/mouse.rs) and the Synaptics    *)
(* touchpad in 3-byte relative mode (drivers/synaptics.rs).  The IRQ12      *)
(* handler feeds every byte to one of the two decoders; `ptr_call` records  *)
(* which one and the last byte it was given.                                *)

POINTER_WIDTH == 6    \* 800 in the source: the screen width given to init
POINTER_HEIGHT == 5   \* 600 in the source: the screen height given to init

\* the bytes the device sends: 0x00 0x03 0x05 fail the sync test, 0x08 is a
\* plain first byte, 0x39 has both sign bits and the left button, 0xC8 both
\* overflow bits, 0xFB and 0xFF have all of them
PointerBytes == {0, 3, 5, 8, 57, 200, 251, 255}

\* the fixed-point sensitivities of the touchpad: 1.0 and 1.5
Sensitivities == {256, 384}

\* bit `bit` of a byte
Bit(byte, bit) == (byte \div (2 ^ bit)) % 2 = 1

\* the quotient of Rust's `/` on i32, which truncates toward zero
TruncDiv(a, b) == IF a >= 0 THEN a \div b ELSE 0 - ((0 - a) \div b)

Mouse_new ==
    [x |-> 0, y |-> 0, buttons |-> 0,
     packet |-> [i \in 0..2 |-> 0], packet_idx |-> 0,
     max_x |-> 800, max_y |-> 600]

set_bounds(m, width, height) ==
    [m EXCEPT !.max_x = width, !.max_y = height,
              !.x = width \div 2, !.y = height \div 2]

\* the overflow bits are ignored
process_packet_IgnoresOverflow(m) ==
    LET flags == m.packet[0]
        dx == IF Bit(flags, 4) THEN m.packet[1] - 256 ELSE m.packet[1]
        dy == IF Bit(flags, 5) THEN m.packet[2] - 256 ELSE m.packet[2]
    IN [m EXCEPT !.x = Min({Max({m.x + dx, 0}), m.max_x - 1}),
                 !.y = Min({Max({m.y - dy, 0}), m.max_y - 1}),
                 !.buttons = flags % 8]

process_packet(m) ==
    LET flags == m.packet[0]
        dx0 == IF Bit(flags, 4) THEN m.packet[1] - 256 ELSE m.packet[1]
        dy0 == IF Bit(flags, 5) THEN m.packet[2] - 256 ELSE m.packet[2]
        dx == IF Bit(flags, 6) THEN 0 ELSE dx0
        dy == IF Bit(flags, 7) THEN 0 ELSE dy0
    IN [m EXCEPT !.x = Min({Max({m.x + dx, 0}), m.max_x - 1}),
                 !.y = Min({Max({m.y - dy, 0}), m.max_y - 1}),
                 !.buttons = flags % 8]

\* the sync test on the first byte is left out
Mouse_process_byte_NoSync(m, byte) ==
    LET m1 == [m EXCEPT !.packet[m.packet_idx] = byte, !.packet_idx = @ + 1]
    IN IF m1.packet_idx >= 3
       THEN [m |-> process_packet([m1 EXCEPT !.packet_idx = 0]), ret |-> TRUE]
       ELSE [m |-> m1, ret |-> FALSE]

\* returns the mouse and whether a packet was completed
Mouse_process_byte(m, byte) ==
    IF m.packet_idx = 0 /\ ~Bit(byte, 3) THEN [m |-> m, ret |-> FALSE]
    ELSE LET m1 == [m EXCEPT !.packet[m.packet_idx] = byte, !.packet_idx = @ + 1]
         IN IF m1.packet_idx >= 3
            THEN [m |-> process_packet([m1 EXCEPT !.packet_idx = 0]), ret |-> TRUE]
            ELSE [m |-> m1, ret |-> FALSE]

\* tap_counter and tap_start_x/y are left out (detect_tap takes every lifted
\* finger for a tap), and so are `info` and prev_finger, which are only written
SynapticsTouchpad_new ==
    [is_initialized |-> FALSE, is_synaptics |-> FALSE, absolute_mode |-> FALSE,
     packet |-> [i \in 0..5 |-> 0], packet_idx |-> 0, packet_size |-> 3,
     finger |-> [x |-> 0, y |-> 0, pressure |-> 0, width |-> 0,
                 left |-> FALSE, right |-> FALSE, middle |-> FALSE,
                 finger_down |-> FALSE],
     screen_width |-> 800, screen_height |-> 600,
     cursor_x |-> 400, cursor_y |-> 300,
     was_finger_down |-> FALSE, tap_enabled |-> TRUE, sensitivity |-> 256]

set_screen_size(t, width, height) ==
    [t EXCEPT !.screen_width = width, !.screen_height = height,
              !.cursor_x = width \div 2, !.cursor_y = height \div 2]

set_sensitivity(t, sensitivity) == [t EXCEPT !.sensitivity = sensitivity]

\* the sensitivity is taken as an integer factor
parse_relative_packet_IntegerFactor(t) ==
    LET flags == t.packet[0]
        dx0 == IF Bit(flags, 4) THEN t.packet[1] - 256 ELSE t.packet[1]
        dy0 == IF Bit(flags, 5) THEN t.packet[2] - 256 ELSE t.packet[2]
        dx == IF Bit(flags, 6) THEN 0 ELSE dx0
        dy == IF Bit(flags, 7) THEN 0 ELSE dy0
        cursor_x == t.cursor_x + dx * t.sensitivity
        cursor_y == t.cursor_y - dy * t.sensitivity
    IN [t EXCEPT !.finger.left = Bit(flags, 0),
                 !.finger.right = Bit(flags, 1),
                 !.finger.middle = Bit(flags, 2),
                 !.cursor_x = Min({Max({cursor_x, 0}), t.screen_width - 1}),
                 !.cursor_y = Min({Max({cursor_y, 0}), t.screen_height - 1})]

parse_relative_packet(t) ==
    LET flags == t.packet[0]
        dx0 == IF Bit(flags, 4) THEN t.packet[1] - 256 ELSE t.packet[1]
        dy0 == IF Bit(flags, 5) THEN t.packet[2] - 256 ELSE t.packet[2]
        dx == IF Bit(flags, 6) THEN 0 ELSE dx0
        dy == IF Bit(flags, 7) THEN 0 ELSE dy0
        cursor_x == t.cursor_x + TruncDiv(dx * t.sensitivity, 256)
        cursor_y == t.cursor_y - TruncDiv(dy * t.sensitivity, 256)
    IN [t EXCEPT !.finger.left = Bit(flags, 0),
                 !.finger.right = Bit(flags, 1),
                 !.finger.middle = Bit(flags, 2),
                 !.cursor_x = Min({Max({cursor_x, 0}), t.screen_width - 1}),
                 !.cursor_y = Min({Max({cursor_y, 0}), t.screen_height - 1})]

\* a finger that has just lifted is taken to have tapped
detect_tap(t) ==
    IF ~t.tap_enabled THEN t
    ELSE [t EXCEPT !.finger.left = IF ~t.finger.finger_down /\ t.was_finger_down
                                   THEN TRUE ELSE @,
                   !.was_finger_down = t.finger.finger_down]

get_buttons(t) ==
    (IF t.finger.left THEN 1 ELSE 0) + (IF t.finger.right THEN 2 ELSE 0)
        + (IF t.finger.middle THEN 4 ELSE 0)

\* `byte & mask`, mask a run of bits given by its lowest bit and its width
Bits(byte, low, width) == (byte \div (2 ^ low)) % (2 ^ width)

TOUCHPAD_MAX == 6143

update_cursor(t) ==
    IF ~t.finger.finger_down THEN t
    ELSE LET scaled_x == (t.finger.x * t.screen_width) \div TOUCHPAD_MAX
             scaled_y == ((TOUCHPAD_MAX - t.finger.y) * t.screen_height) \div TOUCHPAD_MAX
             alpha == 180
             cursor_x == (t.cursor_x * alpha + scaled_x * (255 - alpha)) \div 255
             cursor_y == (t.cursor_y * alpha + scaled_y * (255 - alpha)) \div 255
         IN [t EXCEPT !.cursor_x = Min({Max({cursor_x, 0}), t.screen_width - 1}),
                      !.cursor_y = Min({Max({cursor_y, 0}), t.screen_height - 1})]

parse_absolute_packet(t) ==
    LET p0 == t.packet[0]
        p1 == t.packet[1]
        p2 == t.packet[2]
        p3 == t.packet[3]
        p4 == t.packet[4]
        p5 == t.packet[5]
        w == Bits(p0, 4, 2) * 4 + Bits(p0, 2, 1) * 2 + Bits(p3, 2, 1)
        \* bit 8 is the `|` of the low bit of the nibble and of the bit of p3
        x == (Bits(p1, 1, 3) * 2 + Max({Bits(p1, 0, 1), Bits(p3, 4, 1)})) * 256 + p4
        y == (Bits(p1, 5, 3) * 2 + Max({Bits(p1, 4, 1), Bits(p3, 5, 1)})) * 256 + p5
        z == p2
    IN update_cursor([t EXCEPT !.finger.x = x, !.finger.y = y,
                               !.finger.pressure = z, !.finger.width = w,
                               !.finger.left = Bit(p0, 0) \/ Bit(p3, 0),
                               !.finger.right = Bit(p0, 1) \/ Bit(p3, 1),
                               !.finger.finger_down = z > 25])

\* returns the touchpad and whether a packet was completed
Synaptics_process_byte(t, byte) ==
    IF t.packet_idx = 0 /\ t.absolute_mode /\ Bits(byte, 6, 2) # 2
    THEN [t |-> t, ret |-> FALSE]
    ELSE IF t.packet_idx = 0 /\ ~t.absolute_mode /\ ~Bit(byte, 3)
    THEN [t |-> t, ret |-> FALSE]
    ELSE IF t.absolute_mode /\ t.packet_idx = 3 /\ Bits(byte, 6, 2) # 3
    THEN [t |-> [t EXCEPT !.packet_idx = 0], ret |-> FALSE]
    ELSE LET t1 == [t EXCEPT !.packet[t.packet_idx] = byte, !.packet_idx = @ + 1]
             t2 == [t1 EXCEPT !.packet_idx = 0]
         IN IF t1.packet_idx >= t1.packet_size
            THEN [t |-> detect_tap(IF t.absolute_mode THEN parse_absolute_packet(t2)
                                   ELSE parse_relative_packet(t2)),
                  ret |-> TRUE]
            ELSE [t |-> t1, ret |-> FALSE]

\* What the auxiliary device does during bring-up: the stage of init at
\* which a read or a write times out, whether the self test answers 0xAA,
\* and which of the two status requests of identify_synaptics is answered
\* with the 0x47 signature.
InitStages == {"reset", "identify", "query", "set_mode", "defaults", "enable"}

TouchpadHardware ==
    [timeout : InitStages \cup {"never"}, bat_ok : BOOLEAN,
     signature : {"status", "identify", "none"}]

PlainMouse == [timeout |-> "never", bat_ok |-> TRUE, signature |-> "none"]

\* Result<_, &str>: "Ok" or the error
ps2_reset(hw) ==
    IF hw.timeout = "reset" THEN "PS/2 read timeout"
    ELSE IF ~hw.bat_ok THEN "TouchPad BAT failed"
    ELSE "Ok"

\* Ok(true), Ok(false) or the error
identify_synaptics(hw) ==
    IF hw.timeout = "identify" THEN "PS/2 read timeout"
    ELSE IF hw.signature \in {"status", "identify"} THEN "Ok(true)"
    ELSE "Ok(false)"

query_capabilities(hw) ==
    IF hw.timeout = "query" THEN "PS/2 write timeout" ELSE "Ok"

ps2_send_command(hw, stage) ==
    IF hw.timeout = stage THEN "PS/2 read timeout" ELSE "Ok"

\* the mode is latched once the device has taken the whole sequence
set_absolute_mode(t, hw, absolute) ==
    IF hw.timeout = "set_mode" THEN [t |-> t, ret |-> "PS/2 read timeout"]
    ELSE [t |-> [t EXCEPT !.absolute_mode = absolute,
                          !.packet_size = IF absolute THEN 6 ELSE 3],
          ret |-> "Ok"]

SynapticsTouchpad_init(t, hw) ==
    IF ps2_reset(hw) # "Ok" THEN [t |-> t, ret |-> ps2_reset(hw)]
    ELSE IF identify_synaptics(hw) = "Ok(true)"
    THEN LET t1 == [t EXCEPT !.is_synaptics = TRUE]
             r == set_absolute_mode(t1, hw, TRUE)
         IN IF query_capabilities(hw) # "Ok"
            THEN [t |-> t1, ret |-> query_capabilities(hw)]
            ELSE IF r.ret # "Ok" THEN r
            ELSE IF ps2_send_command(hw, "enable") # "Ok"
            THEN [t |-> r.t, ret |-> ps2_send_command(hw, "enable")]
            ELSE [t |-> [r.t EXCEPT !.is_initialized = TRUE], ret |-> "Ok"]
    ELSE IF identify_synaptics(hw) = "Ok(false)"
    THEN LET t1 == [t EXCEPT !.is_synaptics = FALSE, !.absolute_mode = FALSE,
                             !.packet_size = 3]
         IN IF ps2_send_command(hw, "defaults") # "Ok"
            THEN [t |-> t1, ret |-> ps2_send_command(hw, "defaults")]
            ELSE IF ps2_send_command(hw, "enable") # "Ok"
            THEN [t |-> t1, ret |-> ps2_send_command(hw, "enable")]
            ELSE [t |-> [t1 EXCEPT !.is_initialized = TRUE], ret |-> "Ok"]
    ELSE [t |-> t, ret |-> identify_synaptics(hw)]

\* synaptics::init
synaptics_init(t, screen_width, screen_height, hw) ==
    SynapticsTouchpad_init(set_screen_size(t, screen_width, screen_height), hw)

PtrIdle ==
    /\ mouse = Mouse_new
    /\ touchpad = SynapticsTouchpad_new
    /\ ptr_call = [dev |-> "none", byte |-> 0, ret |-> FALSE]
    /\ tp_init = [ret |-> "none", hw |-> PlainMouse]

\* after bring-up one of the two drivers is the one the IRQ12 handler routes
\* to: mouse::init has set the bounds, or synaptics::init has found a device
\* without the Synaptics signature
PtrInit ==
    /\ ptr_call \in [dev : {"mouse", "touchpad"}, byte : {0}, ret : {FALSE}]
    /\ IF ptr_call.dev = "mouse"
       THEN /\ mouse = set_bounds(Mouse_new, POINTER_WIDTH, POINTER_HEIGHT)
            /\ touchpad = SynapticsTouchpad_new
            /\ tp_init = [ret |-> "none", hw |-> PlainMouse]
       ELSE /\ mouse = Mouse_new
            /\ \E sensitivity \in Sensitivities :
                  touchpad = set_sensitivity(
                                 synaptics_init(SynapticsTouchpad_new, POINTER_WIDTH,
                                                POINTER_HEIGHT, PlainMouse).t,
                                 sensitivity)
            /\ tp_init = [ret |-> "Ok", hw |-> PlainMouse]

MouseByte(byte) ==
    /\ ptr_call.dev = "mouse"
    /\ LET r == Mouse_process_byte(mouse, byte)
       IN /\ mouse' = r.m
          /\ ptr_call' = [ptr_call EXCEPT !.byte = byte, !.ret = r.ret]
    /\ UNCHANGED <<touchpad, tp_init>>

TouchpadByte(byte) ==
    /\ ptr_call.dev = "touchpad"
    /\ LET r == Synaptics_process_byte(touchpad, byte)
       IN /\ touchpad' = r.t
          /\ ptr_call' = [ptr_call EXCEPT !.byte = byte, !.ret = r.ret]
    /\ UNCHANGED <<mouse, tp_init>>

PtrNext ==
    \/ \E byte \in PointerBytes : MouseByte(byte)
    \/ \E byte \in PointerBytes : TouchpadByte(byte)

\* the decoder state the claims speak of: packet index, cursor and buttons
MouseView(m) == [idx |-> m.packet_idx, cursor |-> <<m.x, m.y>>, buttons |-> m.buttons]

TouchpadView(t) ==
    [idx |-> t.packet_idx, cursor |-> <<t.cursor_x, t.cursor_y>>,
     buttons |-> get_buttons(t)]

\* one byte fed to a decoder seen as views before and after: the index stays
\* in 0..2, a first byte without bit 3 changes nothing and gives no event,
\* and cursor and buttons move only when the third byte of a packet is
\* latched, the packet's first byte having bit 3 set
ByteStep(before, after, packet0, byte, ret) ==
    /\ after.idx \in 0..2
    /\ (before.idx = 0 /\ ~Bit(byte, 3)) => (after = before /\ ~ret)
    /\ ret = (before.idx = 2)
    /\ (after.cursor # before.cursor \/ after.buttons # before.buttons) =>
          (ret /\ Bit(packet0, 3))
    /\ (before.idx = 2) => (Bit(packet0, 3) /\ after.idx = 0)
    /\ (before.idx < 2 /\ (before.idx # 0 \/ Bit(byte, 3))) => after.idx = before.idx + 1

\* C17: for any byte stream fed to a decoder in 3-byte mode the packet index
\* is always 0, 1 or 2; a byte arriving at index 0 with bit 3 clear is
\* dropped, leaving cursor, buttons and index as they were and producing no
\* event; cursor and buttons change only on the call that latches the third
\* byte of a packet whose first byte had bit 3 set.
C17_PacketSync ==
    [][/\ mouse' # mouse \/ ptr_call' # ptr_call =>
            (ptr_call.dev = "mouse" =>
                ByteStep(MouseView(mouse), MouseView(mouse'), mouse.packet[0],
                         ptr_call'.byte, ptr_call'.ret))
       /\ touchpad' # touchpad \/ ptr_call' # ptr_call =>
            (ptr_call.dev = "touchpad" =>
                ByteStep(TouchpadView(touchpad), TouchpadView(touchpad'),
                         touchpad.packet[0], ptr_call'.byte, ptr_call'.ret))]_vars

\* the packet [0x08, 0x05, 0xFB] has just been committed by the mouse: the
\* cursor has moved from the centre to the right edge
C17_Witness ==
    /\ ptr_call.dev = "mouse"
    /\ ptr_call.ret
    /\ mouse.packet = [i \in 0..2 |-> <<8, 5, 251>>[i + 1]]
    /\ mouse.packet_idx = 0
    /\ mouse.x = POINTER_WIDTH - 1

\* the movement a committed packet asks for on one axis
Delta(b0, b, sign_bit, overflow_bit) ==
    IF Bit(b0, overflow_bit) THEN 0
    ELSE IF Bit(b0, sign_bit) THEN b - 256 ELSE b

\* C18: for every committed packet (b0, b1, b2), dx is b1 sign-extended by
\* bit 4 of b0 and dy is b2 sign-extended by bit 5, an axis whose overflow
\* bit (6 for X, 7 for Y) is set contributes 0, the buttons become
\* b0 & 0x07, and the cursor becomes (cursor_x + dx*sens, cursor_y - dy*sens)
\* clamped into the screen, sens being 1 for the mouse and sensitivity/256
\* for the touchpad, the product truncated toward zero.
C18_PacketDecoding ==
    [][ptr_call'.ret =>
        /\ ptr_call.dev = "mouse" =>
             LET dx == Delta(mouse'.packet[0], mouse'.packet[1], 4, 6)
                 dy == Delta(mouse'.packet[0], mouse'.packet[2], 5, 7)
             IN /\ mouse'.buttons = mouse'.packet[0] % 8
                /\ mouse'.x = Clamp(mouse.x + dx, 0, POINTER_WIDTH - 1)
                /\ mouse'.y = Clamp(mouse.y - dy, 0, POINTER_HEIGHT - 1)
        /\ ptr_call.dev = "touchpad" =>
             LET dx == Delta(touchpad'.packet[0], touchpad'.packet[1], 4, 6)
                 dy == Delta(touchpad'.packet[0], touchpad'.packet[2], 5, 7)
                 sens == touchpad.sensitivity
             IN /\ get_buttons(touchpad') = touchpad'.packet[0] % 8
                /\ touchpad'.cursor_x =
                      Clamp(touchpad.cursor_x + TruncDiv(dx * sens, 256),
                            0, POINTER_WIDTH - 1)
                /\ touchpad'.cursor_y =
                      Clamp(touchpad.cursor_y - TruncDiv(dy * sens, 256),
                            0, POINTER_HEIGHT - 1)]_vars

\* the touchpad at sensitivity 1.5 has just committed [0xFF, .., ..] with
\* both overflow bits set and the three buttons down: the cursor stays at
\* the centre
C18_Witness ==
    /\ ptr_call.dev = "touchpad"
    /\ ptr_call.ret
    /\ touchpad.sensitivity = 384
    /\ touchpad.packet[0] = 255
    /\ get_buttons(touchpad) = 7
    /\ touchpad.cursor_x = POINTER_WIDTH \div 2
    /\ touchpad.cursor_y = POINTER_HEIGHT \div 2

----------------------------------------------------------------------------
(* Bring-up of the pointing device (drivers/init.rs SynapticsInitEvent and  *)
(* Ps2MouseInitEvent): synaptics::init is tried first, mouse::init is the   *)
(* fallback; then the device sends bytes.                                   *)

\* 0x08 makes relative packets; 0x88 and 0xC8 carry the sync bits of bytes 0
\* and 3 of an absolute packet (and, as byte 2, a pressure above the
\* threshold)
BringupBytes == {8, 136, 200}

\* SynapticsInitEvent::execute
SynapticsInit(hw) ==
    /\ tp_init.ret = "none"
    /\ LET r == synaptics_init(touchpad, POINTER_WIDTH, POINTER_HEIGHT, hw)
       IN /\ touchpad' = r.t
          /\ tp_init' = [ret |-> r.ret, hw |-> hw]
          /\ ptr_call' = [ptr_call EXCEPT !.dev = IF r.ret = "Ok" THEN "touchpad" ELSE @]
    /\ UNCHANGED mouse

\* Ps2MouseInitEvent::execute when synaptics_init has failed
Ps2MouseInit ==
    /\ tp_init.ret \notin {"none", "Ok"}
    /\ ptr_call.dev = "none"
    /\ mouse' = set_bounds(mouse, POINTER_WIDTH, POINTER_HEIGHT)
    /\ ptr_call' = [ptr_call EXCEPT !.dev = "mouse"]
    /\ UNCHANGED <<touchpad, tp_init>>

BringupNext ==
    \/ \E hw \in TouchpadHardware : SynapticsInit(hw)
    \/ Ps2MouseInit
    \/ \E byte \in BringupBytes : MouseByte(byte)
    \/ \E byte \in BringupBytes : TouchpadByte(byte)

\* C26: once the touchpad driver's init has returned success the driver is in
\* relative mode, whatever the device identified itself as: absolute_mode is
\* false and the packet size is 3.
C26_InitLeavesRelativeMode ==
    tp_init.ret = "Ok" =>
        (touchpad.is_initialized /\ ~touchpad.absolute_mode /\ touchpad.packet_size = 3)

----------------------------------------------------------------------------
(* One relative packet, again and again, on the 800x600 screen of the demo  *)
(* boot: 0x09 (left button, no sign bit), 0x05, 0xFB.                       *)

Packet == <<9, 5, 251>>

\* sensitivities of the touchpad: 2, and 1.0 and 2.0 in its fixed point
PacketSensitivities == {2, 256, 512}

PacketInit ==
    /\ ptr_call \in [dev : {"mouse", "touchpad"}, byte : {0}, ret : {FALSE}]
    /\ IF ptr_call.dev = "mouse"
       THEN /\ mouse = set_bounds(Mouse_new, SCREEN_WIDTH, SCREEN_HEIGHT)
            /\ touchpad = SynapticsTouchpad_new
            /\ tp_init = [ret |-> "none", hw |-> PlainMouse]
       ELSE /\ mouse = Mouse_new
            /\ \E sensitivity \in PacketSensitivities :
                  touchpad = set_sensitivity(
                                 synaptics_init(SynapticsTouchpad_new, SCREEN_WIDTH,
                                                SCREEN_HEIGHT, PlainMouse).t,
                                 sensitivity)
            /\ tp_init = [ret |-> "Ok", hw |-> PlainMouse]

\* the device sends the next byte of the packet
PacketNext ==
    \/ MouseByte(Packet[mouse.packet_idx + 1])
    \/ TouchpadByte(Packet[touchpad.packet_idx + 1])

CentreX == SCREEN_WIDTH \div 2
CentreY == SCREEN_HEIGHT \div 2

\* the decoder is at the centre and the step completes the packet
FromCentre ==
    /\ ptr_call'.ret
    /\ IF ptr_call.dev = "mouse"
       THEN mouse.x = CentreX /\ mouse.y = CentreY
       ELSE touchpad.cursor_x = CentreX /\ touchpad.cursor_y = CentreY

\* C29 as stated: from the centre and with sensitivity 2 the packet
\* [0x09, 0x05, 0xFB] yields cursor_x = centre_x + 10, cursor_y = centre_y + 10
\* and buttons = 1.
C29_Original ==
    [][(FromCentre /\ (ptr_call.dev = "touchpad" => touchpad.sensitivity = 2)) =>
          IF ptr_call.dev = "mouse"
          THEN mouse'.x = CentreX + 10 /\ mouse'.y = CentreY + 10 /\ mouse'.buttons = 1
          ELSE /\ touchpad'.cursor_x = CentreX + 10
               /\ touchpad'.cursor_y = CentreY + 10
               /\ get_buttons(touchpad') = 1]_vars

\* C29 (amended): from the centre of the 800x600 screen the packet
\* [0x09, 0x05, 0xFB], whose Y sign bit is clear (dx = 5, dy = 251), yields
\* buttons = 1 and: in the PS/2 mouse decoder, which has no sensitivity,
\* x = centre_x + 5 and y = centre_y - 251 = 49; in the touchpad decoder in
\* relative mode, whose sensitivity is fixed point (256 = 1.0),
\* (centre_x, centre_y - 1) for sensitivity 2, (centre_x + 5, 49) for 256 and
\* (centre_x + 10, 0) for 512.
C29_PacketFromCentre ==
    [][FromCentre =>
          IF ptr_call.dev = "mouse"
          THEN mouse'.x = CentreX + 5 /\ mouse'.y = 49 /\ mouse'.buttons = 1
          ELSE /\ get_buttons(touchpad') = 1
               /\ <<touchpad'.cursor_x, touchpad'.cursor_y>> =
                     CASE touchpad.sensitivity = 2 -> <<CentreX, CentreY - 1>>
                       [] touchpad.sensitivity = 256 -> <<CentreX + 5, 49>>
                       [] touchpad.sensitivity = 512 -> <<CentreX + 10, 0>>]_vars

\* the touchpad with sensitivity 2 has decoded the packet once
C29_Witness ==
    /\ ptr_call = [dev |-> "touchpad", byte |-> 251, ret |-> TRUE]
    /\ touchpad.sensitivity = 2
    /\ touchpad.cursor_x = CentreX /\ touchpad.cursor_y = CentreY - 1
    /\ get_buttons(touchpad) = 1

----------------------------------------------------------------------------
(* Interrupt dispatch (arch/x86/idt.rs, arch/x86/pic.rs).  One delivery is  *)
(* one step: the assembly stub the IDT entry points to pushes an interrupt  *)
(* number, isr_common calls interrupt_handler, and the handler returns      *)
(* (iretd) or halts.  `idt` records the delivery and what it did.           *)

IRQ_BASE_MASTER == 32
IRQ_BASE_SLAVE == 40

TICK_MODULUS == 3  \* 2^32 in the source: TICK_COUNT is a wrapping u32

\* the vectors with a present IDT entry: exceptions 0..31 and IRQs 32..47
Vectors == 0..47

\* what port 0x60 holds when the keyboard or the mouse interrupt is taken
IrqScancodes == {30, 158}
IrqBytes == {8, 5}

\* the interrupt number pushed by the stub set_exception_handlers and
\* set_irq_handlers install for a vector
StubNumber(vector) ==
    IF vector \in 0..19 THEN vector
    ELSE IF vector \in 20..31 THEN 255
    ELSE IF vector \in {32, 33, 44} THEN vector
    ELSE 255

\* the PIC command ports that receive PIC_EOI, in order
send_eoi(interrupt) ==
    IF interrupt >= IRQ_BASE_SLAVE THEN <<"PIC2_COMMAND", "PIC1_COMMAND">>
    ELSE <<"PIC1_COMMAND">>

IdtIdle ==
    idt = [TICK_COUNT |-> 0, vector |-> NULL, int_num |-> NULL, eoi |-> <<>>,
           vga |-> "", pc |-> "running"]

\* the record of a delivery that came back through iretd
Returned(vector, tick_count, eoi) ==
    idt' = [TICK_COUNT |-> tick_count, vector |-> vector,
            int_num |-> StubNumber(vector), eoi |-> eoi, vga |-> idt.vga,
            pc |-> "running"]

\* writes the diagnostic and ends in the `cli; hlt` loop
exception_handler(vector, name) ==
    /\ idt' = [idt EXCEPT !.vector = vector, !.int_num = StubNumber(vector),
                          !.eoi = <<>>, !.vga = name, !.pc = "halted"]
    /\ UNCHANGED <<kbdVars, ptrVars>>

page_fault_handler(vector) == exception_handler(vector, "PAGE FAULT")

timer_handler(vector) ==
    /\ Returned(vector, (idt.TICK_COUNT + 1) % TICK_MODULUS, send_eoi(32))
    /\ UNCHANGED <<kbdVars, ptrVars>>

keyboard_handler(vector) ==
    /\ \E scancode \in IrqScancodes : ProcessScancode(scancode)
    /\ Returned(vector, idt.TICK_COUNT, send_eoi(33))
    /\ UNCHANGED ptrVars

\* `aux` is bit 5 of the status port; the byte goes to the touchpad when
\* the Synaptics driver is initialised and to the PS/2 mouse otherwise
mouse_handler(vector) ==
    /\ \E aux \in BOOLEAN :
          IF ~aux THEN UNCHANGED ptrVars
          ELSE \E byte \in IrqBytes : MouseByte(byte) \/ TouchpadByte(byte)
    /\ Returned(vector, idt.TICK_COUNT, send_eoi(44))
    /\ UNCHANGED kbdVars

interrupt_handler(vector) ==
    LET int_num == StubNumber(vector)
    IN CASE int_num = 0 -> exception_handler(vector, "Division by zero")
         [] int_num = 6 -> exception_handler(vector, "Invalid opcode")
         [] int_num = 8 -> exception_handler(vector, "Double fault")
         [] int_num = 13 -> exception_handler(vector, "General protection fault")
         [] int_num = 14 -> page_fault_handler(vector)
         [] int_num = 32 -> timer_handler(vector)
         [] int_num = 33 -> keyboard_handler(vector)
         [] int_num = 44 -> mouse_handler(vector)
         [] int_num \in (32..47) \ {32, 33, 44} ->
                /\ Returned(vector, idt.TICK_COUNT, send_eoi(int_num))
                /\ UNCHANGED <<kbdVars, ptrVars>>
         [] OTHER ->
                /\ Returned(vector, idt.TICK_COUNT, <<>>)
                /\ UNCHANGED <<kbdVars, ptrVars>>

\* a CPU exception is raised
Exception(vector) ==
    /\ idt.pc = "running"
    /\ interrupt_handler(vector)

\* a PIC raises an interrupt request
Irq(vector) ==
    /\ idt.pc = "running"
    /\ interrupt_handler(vector)

IdtInit ==
    /\ IdtIdle
    /\ KbdIdle
    /\ PtrInit

IdtNext ==
    \/ \E vector \in 0..31 : Exception(vector)
    \/ \E vector \in IRQ_BASE_MASTER..47 : Irq(vector)

\* C19: once a hardware interrupt on a vector 32..47 has been handled, the
\* master PIC has received an end-of-interrupt, and so has the slave PIC
\* before it when the vector is 40..47.
C19_EveryIrqGetsEoi ==
    (idt.vector # NULL /\ idt.vector \in IRQ_BASE_MASTER..47) =>
        idt.eoi = IF idt.vector >= IRQ_BASE_SLAVE
                  THEN <<"PIC2_COMMAND", "PIC1_COMMAND">>
                  ELSE <<"PIC1_COMMAND">>

\* C20: once a CPU exception 0..31 has been delivered, a diagnostic is on
\* the screen and the processor is halted for good: interrupt_handler has
\* not returned.
C20_ExceptionsHalt ==
    (idt.vector # NULL /\ idt.vector \in 0..31) =>
        (idt.pc = "halted" /\ idt.vga # "")

----------------------------------------------------------------------------
(* Boot and the GUI loop (main.rs kernel_main, run_gui) against the IRQ1    *)
(* and IRQ12 handlers (arch/x86/idt.rs): who reads the PS/2 data port and   *)
(* who feeds the keyboard and pointing drivers, and when.                   *)
(*                                                                          *)
(* boot.pc is the position of the non-interrupt code, boot.interrupts the   *)
(* IF flag, boot.masked the IRQ lines masked at the PIC, boot.obf the byte  *)
(* in the 8042 output buffer and the device it came from.                   *)

Empty == [src |-> "none", byte |-> 0]

MOUSE_ACK == 250

BootScancodes == {30}
BootBytes == {8}

\* the devices the bring-up is run against: a Synaptics touchpad, a plain
\* PS/2 mouse, and one whose reset is never acknowledged
BootHardware ==
    {hw \in TouchpadHardware :
        /\ hw.bat_ok
        /\ hw.timeout \in {"never", "reset"}
        /\ hw.signature \in {"status", "none"}
        /\ hw.timeout = "reset" => hw.signature = "none"}

BootIdle ==
    boot = [pc |-> "idt_init", interrupts |-> FALSE, masked |-> {1, 12}, obf |-> Empty]

\* idt::init: pic::init leaves IRQ0, IRQ1, IRQ2 and IRQ12 unmasked
idt_init ==
    /\ boot.pc = "idt_init"
    /\ boot' = [boot EXCEPT !.pc = "sti", !.masked = {}]
    /\ UNCHANGED <<kbdVars, ptrVars>>

\* kernel_main: asm!("sti")
sti ==
    /\ boot.pc = "sti"
    /\ boot' = [boot EXCEPT !.pc = "reset_write", !.interrupts = TRUE]
    /\ UNCHANGED <<kbdVars, ptrVars>>

\* init_all_drivers, synaptics_init: ps2_reset writes the reset command to
\* the auxiliary device, which answers with an acknowledge byte
ps2_write_aux ==
    /\ boot.pc = "reset_write"
    /\ boot' = [boot EXCEPT !.pc = "reset_read",
                            !.obf = IF @ = Empty THEN [src |-> "aux", byte |-> MOUSE_ACK] ELSE @]
    /\ UNCHANGED <<kbdVars, ptrVars>>

\* ps2_read_timeout polls the status port and reads the data port when the
\* output buffer is full; with the buffer empty until the deadline the reset
\* fails with a timeout.  The rest of synaptics_init follows.
ps2_read_timeout ==
    /\ boot.pc = "reset_read"
    /\ \E hw \in BootHardware :
          /\ hw.timeout = "reset" <=> boot.obf = Empty
          /\ SynapticsInit(hw)
    /\ boot' = [boot EXCEPT !.pc = IF boot.obf = Empty THEN "mouse_init" ELSE "run_gui",
                            !.obf = Empty]
    /\ UNCHANGED kbdVars

\* init_all_drivers, ps2_mouse_init: mouse::init polls the controller and
\* drains the data port
mouse_init ==
    /\ boot.pc = "mouse_init"
    /\ Ps2MouseInit
    /\ boot' = [boot EXCEPT !.pc = "run_gui", !.obf = Empty]
    /\ UNCHANGED kbdVars

\* run_gui: IRQ1 and IRQ12 are masked before the polling loop
mask_irqs ==
    /\ boot.pc = "run_gui"
    /\ boot' = [boot EXCEPT !.pc = "poll", !.masked = {1, 12}]
    /\ UNCHANGED <<kbdVars, ptrVars>>

\* drv.is_synaptics(): the input type is SYNAPTICS or PS2_VIA_SYNAPTICS,
\* which synaptics_init records when the touchpad driver's init succeeds
using_synaptics == tp_init.ret = "Ok"

RouteAux(to_touchpad, byte) ==
    IF to_touchpad
    THEN LET r == Synaptics_process_byte(touchpad, byte)
         IN /\ touchpad' = r.t
            /\ ptr_call' = [dev |-> "touchpad", byte |-> byte, ret |-> r.ret]
            /\ UNCHANGED <<mouse, tp_init>>
    ELSE LET r == Mouse_process_byte(mouse, byte)
         IN /\ mouse' = r.m
            /\ ptr_call' = [dev |-> "mouse", byte |-> byte, ret |-> r.ret]
            /\ UNCHANGED <<touchpad, tp_init>>

\* the polling part of the GUI loop: status port, data port, then the
\* keyboard or the pointing driver
poll ==
    /\ boot.pc = "poll"
    /\ boot.obf # Empty
    /\ IF boot.obf.src = "kbd"
       THEN ProcessScancode(boot.obf.byte) /\ UNCHANGED ptrVars
       ELSE RouteAux(using_synaptics, boot.obf.byte) /\ UNCHANGED kbdVars
    /\ boot' = [boot EXCEPT !.obf = Empty]

\* the GUI loop drains the key buffer
poll_keys ==
    /\ boot.pc = "poll"
    /\ GetKey
    /\ UNCHANGED <<boot, ptrVars>>

\* a key is pressed or released
KeyArrives(scancode) ==
    /\ boot.obf = Empty
    /\ boot' = [boot EXCEPT !.obf = [src |-> "kbd", byte |-> scancode]]
    /\ UNCHANGED <<kbdVars, ptrVars>>

\* the pointing device reports once it has been enabled
AuxArrives(byte) ==
    /\ boot.obf = Empty
    /\ boot.pc \in {"run_gui", "poll"}
    /\ boot' = [boot EXCEPT !.obf = [src |-> "aux", byte |-> byte]]
    /\ UNCHANGED <<kbdVars, ptrVars>>

\* whether the handler of an IRQ line can run
CanRun(line) == boot.interrupts /\ line \notin boot.masked

\* vector 33, keyboard_handler
Irq1 ==
    /\ CanRun(1)
    /\ boot.obf.src = "kbd"
    /\ ProcessScancode(boot.obf.byte)
    /\ boot' = [boot EXCEPT !.obf = Empty]
    /\ UNCHANGED ptrVars

\* vector 44, mouse_handler
Irq12 ==
    /\ CanRun(12)
    /\ boot.obf.src = "aux"
    /\ RouteAux(touchpad.is_initialized, boot.obf.byte)
    /\ boot' = [boot EXCEPT !.obf = Empty]
    /\ UNCHANGED kbdVars

BootInit == BootIdle /\ KbdIdle /\ PtrIdle

BootNext ==
    \/ idt_init
    \/ sti
    \/ ps2_write_aux
    \/ ps2_read_timeout
    \/ mouse_init
    \/ mask_irqs
    \/ poll
    \/ poll_keys
    \/ \E scancode \in BootScancodes : KeyArrives(scancode)
    \/ \E byte \in BootBytes : AuxArrives(byte)
    \/ Irq1
    \/ Irq12

\* the positions at which the next step of the non-interrupt code reads the
\* PS/2 data port or calls into the keyboard or pointing driver
MainPolls == boot.pc \in {"reset_read", "mouse_init", "poll"}

\* C21: the PS/2 data port and the state of the keyboard and pointing
\* drivers are never accessed by non-interrupt code (the bring-up polling or
\* the main loop) while the IRQ1 or IRQ12 handler can run, that is while the
\* line is unmasked and interrupts are enabled.
C21_NoAccessWhileHandlerCanRun ==
    MainPolls => (~CanRun(1) /\ ~CanRun(12))

----------------------------------------------------------------------------
(* The timer (arch/x86/pit.rs) and the sleep system call.  pit.TICK_COUNT   *)
(* is the counter of pit.rs; the counter of idt.rs is idt.TICK_COUNT.       *)
(* pit.pc is the position of the caller of delay_ms: "idle" before the      *)
(* call, "check" at the loop test, "hlt" halted until the next interrupt,   *)
(* "returned" after the loop.                                               *)

DEFAULT_HZ == 100

\* arguments of the sleep system call, in milliseconds
SleepMs == {0, 5, 10, 20}

PitIdle ==
    pit = [TICK_COUNT |-> 0, TIMER_HZ |-> DEFAULT_HZ, pc |-> "idle",
           start |-> 0, wait_ticks |-> 0]

\* pit::tick; no handler calls it
tick(p) == [p EXCEPT !.TICK_COUNT = (@ + 1) % TICK_MODULUS]

ticks(p) == p.TICK_COUNT

wrapping_sub(a, b) == (a - b) % TICK_MODULUS

\* SyscallSleep::execute calls delay_ms(ms): the part before the loop
delay_ms(ms) ==
    /\ pit.pc \in {"idle", "returned"}
    /\ pit' = [pit EXCEPT !.pc = "check", !.start = ticks(pit),
                          !.wait_ticks = (ms * pit.TIMER_HZ) \div 1000]
    /\ UNCHANGED idtVars

\* the loop test of delay_ms
delay_ms_test ==
    /\ pit.pc = "check"
    /\ pit' = [pit EXCEPT !.pc = IF wrapping_sub(ticks(pit), pit.start) < pit.wait_ticks
                                 THEN "hlt" ELSE "returned"]
    /\ UNCHANGED idtVars

\* an interrupt is delivered and ends the `hlt` of the loop body
Interrupt(vector) ==
    /\ Irq(vector)
    /\ pit' = [pit EXCEPT !.pc = IF @ = "hlt" THEN "check" ELSE @]

TimerInterrupt == Interrupt(IRQ_BASE_MASTER)

SleepInit == PitIdle /\ IdtIdle

SleepNext ==
    \/ \E ms \in SleepMs : delay_ms(ms)
    \/ delay_ms_test
    \/ TimerInterrupt
    \/ \E vector \in ((IRQ_BASE_MASTER + 1)..47) \ {33, 44} : Interrupt(vector)

Sleeping == pit.pc \in {"check", "hlt"}

\* C24: a sleep system call eventually returns, provided timer interrupts
\* keep being delivered and dispatched: the counter delay_ms waits on is
\* advanced by each timer interrupt.
C24_SleepReturns == Sleeping ~> (pit.pc = "returned")

----------------------------------------------------------------------------
(* init_all_drivers (drivers/init.rs): the driver chain of the kernel, run  *)
(* once at boot on the machine's hardware with the VESA mode handed over by *)
(* the boot loader.                                                         *)

\* the framebuffer modes of the boot info
VesaModes ==
    { [addr |-> 1024, w |-> 640, h |-> 480, bpp |-> 4, pitch |-> 2560],
      [addr |-> 2048, w |-> 800, h |-> 600, bpp |-> 3, pitch |-> 2400],
      [addr |-> 3072, w |-> 1024, h |-> 768, bpp |-> 4, pitch |-> 4096] }

\* the display adapter and the device behind the auxiliary PS/2 port
DriverHardware ==
    [ati : {"absent", "dead", "no_mode", "present"}, ati_fb : {4096}, touchpad : TouchpadHardware]

\* the failures array of DriverInitResult
DRIVER_FAILURES == 8

NoDriverResult ==
    [fb_addr |-> 0, width |-> 0, height |-> 0, bpp |-> 0, pitch |-> 0, gpu_type |-> 0,
     hw_cursor |-> FALSE, input_type |-> 0, failures |-> <<>>, failure_count |-> 0]

DrvIdle == drv = [pc |-> "start", hw |-> [ati |-> "absent", ati_fb |-> 4096,
                                          touchpad |-> PlainMouse],
                  vesa |-> CHOOSE v \in VesaModes : v.addr = 1024, out |-> NoDriverResult]

DrvInit ==
    /\ ChainNew
    /\ PtrIdle
    /\ drv \in [pc : {"start"}, hw : DriverHardware, vesa : VesaModes, out : {NoDriverResult}]

\* the context init_all_drivers hands to the chain
DriverContext(vesa) ==
    SetAll(EventContext_new, [vesa_addr |-> ValU32(vesa.addr), vesa_w |-> ValU32(vesa.w),
                              vesa_h |-> ValU32(vesa.h), vesa_bpp |-> ValU32(vesa.bpp),
                              vesa_pitch |-> ValU32(vesa.pitch)])

DriverEvents ==
    <<"ati_rage_probe", "vesa_fallback", "framebuffer_init", "synaptics_init",
      "ps2_mouse_init", "keyboard_init">>

\* what synaptics::init returns on this machine
SynapticsOutcome(width, height) ==
    synaptics_init(touchpad, width, height, drv.hw.touchpad)

\* init_all_drivers up to chain.execute: the chain is built
BuildDriverChain ==
    /\ drv.pc = "start"
    /\ chain_pc = "building"
    /\ LET r == SynapticsOutcome(800, 600)
           hw == [ati |-> drv.hw.ati, ati_fb |-> drv.hw.ati_fb,
                  synaptics |-> [ret |-> r.ret, is_synaptics |-> r.t.is_synaptics]]
       IN events' = [i \in 1..Len(DriverEvents) |->
                        [name |-> DriverEvents[i], behaviour |-> "Driver", hw |-> hw]]
    /\ middleware' = <<[kind |-> "Logging", arg |-> 0], [kind |-> "Dependency", arg |-> 0]>>
    /\ fault_tolerance' = "BestEffort"
    /\ drv' = [drv EXCEPT !.pc = "built"]
    /\ UNCHANGED <<chain_pc, context, result, invoked, executed, trace, rejected, retried>>
    /\ UNCHANGED <<mouse, touchpad, ptr_call, tp_init>>

\* Option<u32> of a context key, or the default
U32Or(ctx, key, default) == unwrap_or(get_u32(ctx, key), default)

\* init_all_drivers from chain.execute to its return
ExecuteDriverChain ==
    /\ drv.pc = "built"
    /\ chain_pc = "building"
    /\ LET st0 == [context |-> DriverContext(drv.vesa), executed |-> <<>>, trace |-> <<>>,
                   rejected |-> {}, retried |-> {}]
           out == ExecuteLoop(1, st0, [result |-> ChainResult_success,
                                       had_failures |-> FALSE, invoked |-> <<>>])
           ctx == out.st.context
           width == U32Or(ctx, "scr_width", 800)
           height == U32Or(ctx, "scr_height", 600)
           r == SynapticsOutcome(width, height)
           tried == InSeq(4, out.st.executed)
           fell_back == InSeq(5, out.st.executed) /\ ~(tried /\ r.ret = "Ok")
           names == [j \in 1..Len(out.result.failures) |->
                        out.result.failures[j].event_name]
       IN /\ result' = out.result
          /\ context' = ctx
          /\ executed' = out.st.executed
          /\ trace' = out.st.trace
          /\ rejected' = out.st.rejected
          /\ retried' = out.st.retried
          /\ invoked' = out.invoked
          /\ touchpad' = IF tried THEN r.t ELSE touchpad
          /\ tp_init' = IF tried THEN [ret |-> r.ret, hw |-> drv.hw.touchpad] ELSE tp_init
          /\ mouse' = IF fell_back THEN set_bounds(mouse, width, height) ELSE mouse
          /\ ptr_call' = [ptr_call EXCEPT !.dev = IF tried /\ r.ret = "Ok" THEN "touchpad"
                                                  ELSE IF fell_back THEN "mouse" ELSE @]
          /\ drv' = [drv EXCEPT
                       !.pc = "returned",
                       !.out = [fb_addr |-> U32Or(ctx, "fb_addr", drv.vesa.addr),
                                width |-> U32Or(ctx, "fb_width", drv.vesa.w),
                                height |-> U32Or(ctx, "fb_height", drv.vesa.h),
                                bpp |-> U32Or(ctx, "fb_bpp", drv.vesa.bpp),
                                pitch |-> U32Or(ctx, "fb_pitch", drv.vesa.pitch),
                                gpu_type |-> U32Or(ctx, "gpu_type", 0),
                                hw_cursor |-> unwrap_or(get_bool(ctx, "hw_cursor"), FALSE),
                                input_type |-> U32Or(ctx, "input_type", 0),
                                failures |-> SubSeq(names, 1, Min({Len(names),
                                                                   DRIVER_FAILURES})),
                                failure_count |-> Min({Len(names), DRIVER_FAILURES})]]
    /\ chain_pc' = "done"
    /\ UNCHANGED <<events, middleware, fault_tolerance>>

DrvNext ==
    \/ BuildDriverChain
    \/ ExecuteDriverChain

\* the VESA-fallback boot: no ATI Rage on the bus, and the chain has returned
VesaFallbackBoot == drv.pc = "returned" /\ drv.hw.ati = "absent"

\* the six events ran in order and the framebuffer keys are those of VESA
VesaBootOutcome ==
    /\ executed = <<1, 2, 3, 4, 5, 6>>
    /\ invoked = <<1, 2, 3, 4, 5, 6>>
    /\ context["fb_addr"] = ValU32(drv.vesa.addr)
    /\ context["fb_width"] = ValU32(drv.vesa.w)
    /\ context["fb_height"] = ValU32(drv.vesa.h)
    /\ context["fb_bpp"] = ValU32(drv.vesa.bpp)
    /\ context["fb_pitch"] = ValU32(drv.vesa.pitch)
    /\ context["gpu_type"] = ValU32(GPU_VESA)
    /\ context["input_init"] = ValBool(TRUE)
    /\ drv.out.input_type \in {INPUT_SYNAPTICS, INPUT_PS2_VIA_SYNAPTICS, INPUT_PS2_MOUSE}

\* C27 as stated: in the VESA-fallback boot, however synaptics_init turns
\* out, the six driver events are invoked in order, the framebuffer keys hold
\* the VESA values, input is initialised, and the chain result records zero
\* or one failure.
C27_Original ==
    VesaFallbackBoot => (VesaBootOutcome /\ failure_count(result) \in {0, 1})

\* C27: in the VESA-fallback boot, however synaptics_init turns out, the six
\* driver events are invoked in order, the framebuffer keys hold the VESA
\* values and input is initialised; the chain result records the failure of
\* ati_rage_probe, and that of synaptics_init as a second one when the
\* touchpad driver's init returns an error (ps2_mouse_init then initialises
\* the input).
C27_VesaFallbackBoot ==
    VesaFallbackBoot =>
        /\ VesaBootOutcome
        /\ drv.out.failures = IF tp_init.ret = "Ok" THEN <<"ati_rage_probe">>
                              ELSE <<"ati_rage_probe", "synaptics_init">>
        /\ failure_count(result) = drv.out.failure_count
        /\ (tp_init.ret # "Ok") <=> (drv.out.input_type = INPUT_PS2_MOUSE)
        /\ result.status = "CompletedWithWarnings"

\* the touchpad's reset timed out and the PS/2 mouse driver took over
C27_Witness ==
    /\ VesaFallbackBoot
    /\ tp_init.ret = "PS/2 read timeout"
    /\ drv.out.input_type = INPUT_PS2_MOUSE
    /\ failure_count(result) = 2

\* the static BACK_BUFFER_DATA of main.rs, in bytes
BACK_BUFFER_DATA == 800 * 600 * 4

\* set_pixel: the bytes it writes for the pixel (x, y) of a framebuffer of
\* these dimensions, as offsets from the start of the buffer
PixelBytes(fb, x, y) ==
    IF x < 0 \/ y < 0 \/ x >= fb.width \/ y >= fb.height \/ fb.bpp \notin {2, 3, 4} THEN {}
    ELSE LET offset == y * fb.pitch + x * fb.bpp
         IN offset..(offset + fb.bpp - 1)

\* run_gui: the back buffer has the dimensions the driver chain returned,
\* and clear writes every pixel of it; the corners bound the bytes written
BackBufferWrites ==
    UNION {PixelBytes(drv.out, x, y) : x \in {0, drv.out.width - 1},
                                      y \in {0, drv.out.height - 1}}

\* C40: for every width, height, bytes per pixel and pitch the driver chain
\* can report, from the VESA parameters of the boot info or from the ATI
\* mode set, every byte written to the back buffer during rendering lies
\* inside the 800 * 600 * 4 bytes of BACK_BUFFER_DATA.
C40_BackBufferBounds ==
    drv.pc = "returned" => \A b \in BackBufferWrites : b >= 0 /\ b < BACK_BUFFER_DATA

\* the same, for the boots in which the ATI Rage set the mode
BackBufferBoundsOnAti ==
    drv.out.gpu_type = GPU_ATI_RAGE => C40_BackBufferBounds

----------------------------------------------------------------------------
(* handle_syscall (syscall/mod.rs).  sys.pc is its position: "idle" before  *)
(* the call, "built" once the context and the chain are set up, "sleeping"  *)
(* while SyscallSleep::execute is inside pit::delay_ms, "returned" after    *)
(* the return.                                                              *)

\* the numbers with an event of their own, the numbers SyscallNumber::from
\* knows but handle_syscall has no event for, and numbers it does not know
SyscallNumbers == {0, 1, 2, 5, 12, 13, 14} \cup {3, 11} \cup {15, 255}

\* arg1: a file descriptor, or the milliseconds of sleep
SyscallArg1 == {0, 1, 10}

\* arg3: the byte count of read and write
SyscallArg3 == {0, 7}

\* no task yet, and task 1 running with task 2 ready
SyscallScheds ==
    LET two == [Scheduler_new EXCEPT !.tasks[1] = Task_new(2), !.tasks[2] = Task_new(2),
                                     !.next_pid = 3]
    IN {Scheduler_new, schedule(enqueue(enqueue(two, 1), 2))}

SysIdle == sys = [pc |-> "idle", number |-> 0, arg1 |-> 0, arg3 |-> 0, ret |-> 0]

SysInit ==
    /\ ChainNew
    /\ sched \in SyscallScheds
    /\ PitIdle
    /\ IdtIdle
    /\ SysIdle

\* the event handle_syscall selects for a number (SyscallNumber::from, then
\* the match)
SyscallEvent(number) ==
    CASE number = 0 -> "sys_exit"
      [] number = 1 -> "sys_read"
      [] number = 2 -> "sys_write"
      [] number = 5 -> "sys_getpid"
      [] number = 12 -> "sys_yield"
      [] number = 13 -> "sys_sleep"
      [] number = 14 -> "sys_time"
      [] OTHER -> "sys_unknown"

\* the value of `params.number as u32`: the discriminant of the enum
SyscallDiscriminant(number) == IF number \in 0..14 THEN number ELSE U32_MAX

SyscallContext ==
    SetAll(EventContext_new,
           [syscall_number |-> ValU32(SyscallDiscriminant(sys.number)),
            arg1 |-> ValU32(sys.arg1), arg2 |-> ValU32(0), arg3 |-> ValU32(sys.arg3),
            arg4 |-> ValU32(0), arg5 |-> ValU32(0), ring |-> ValU32(3)])

\* handle_syscall up to chain.execute
SyscallBuild(number, arg1, arg3) ==
    /\ sys.pc = "idle"
    /\ chain_pc = "building"
    /\ sys' = [sys EXCEPT !.pc = "built", !.number = number, !.arg1 = arg1, !.arg3 = arg3]
    /\ events' = <<[name |-> SyscallEvent(number), behaviour |-> "Syscall"]>>
    /\ middleware' = <<[kind |-> "Logging", arg |-> 0], [kind |-> "Permission", arg |-> 3],
                       [kind |-> "Audit", arg |-> 0]>>
    /\ fault_tolerance' = "Strict"
    /\ UNCHANGED <<chain_pc, context, result, invoked, executed, trace, rejected, retried>>
    /\ UNCHANGED <<sched, pit, idt>>

\* the middleware lets the event run
SyscallAdmitted == ~PermissionRejects(SyscallContext, 3)

\* SyscallSleep::execute calls delay_ms(arg1)
SyscallSleepCall ==
    /\ sys.pc = "built"
    /\ events[1].name = "sys_sleep"
    /\ SyscallAdmitted
    /\ delay_ms(sys.arg1)
    /\ sys' = [sys EXCEPT !.pc = "sleeping"]
    /\ UNCHANGED <<chainVars, sched>>

SysDelayTest == delay_ms_test /\ UNCHANGED <<chainVars, sched, sys>>

SysTimerInterrupt == TimerInterrupt /\ UNCHANGED <<chainVars, sched, sys>>

\* chain.execute and the return of handle_syscall; for sys_sleep, once
\* delay_ms has returned
SyscallReturn ==
    /\ chain_pc = "building"
    /\ IF events # <<>> /\ events[1].name = "sys_sleep" /\ SyscallAdmitted
       THEN sys.pc = "sleeping" /\ pit.pc = "returned"
       ELSE sys.pc = "built"
    /\ LET st0 == [context |-> SyscallContext, executed |-> <<>>, trace |-> <<>>,
                   rejected |-> {}, retried |-> {}]
           out == ExecuteLoop(1, st0, [result |-> ChainResult_success,
                                       had_failures |-> FALSE, invoked |-> <<>>])
           yielded == InSeq(1, out.st.executed) /\ events[1].name = "sys_yield"
       IN /\ result' = out.result
          /\ context' = out.st.context
          /\ executed' = out.st.executed
          /\ trace' = out.st.trace
          /\ rejected' = out.st.rejected
          /\ retried' = out.st.retried
          /\ invoked' = out.invoked
          /\ sched' = IF yielded THEN schedule(sched) ELSE sched
          /\ sys' = [sys EXCEPT !.pc = "returned",
                                !.ret = IF out.result.success
                                        THEN unwrap_or(get_u32(out.st.context, "result"), 0)
                                        ELSE U32_MAX]
    /\ chain_pc' = "done"
    /\ UNCHANGED <<events, middleware, fault_tolerance, pit, idt>>

SysNext ==
    \/ \E number \in SyscallNumbers, arg1 \in SyscallArg1, arg3 \in SyscallArg3 :
          SyscallBuild(number, arg1, arg3)
    \/ SyscallSleepCall
    \/ SysDelayTest
    \/ SysTimerInterrupt
    \/ SyscallReturn

\* the numbers with an event of their own
KnownSyscalls == {0, 1, 2, 5, 12, 13, 14}

\* what the selected event stores under `result`
StoredResult ==
    CASE sys.number \in {0, 1, 13} -> {0}
      [] sys.number = 2 -> {IF sys.arg1 \in {1, 2} THEN sys.arg3 ELSE 0}
      [] sys.number = 5 -> {IF sched.current >= 1 THEN sched.current ELSE 0}
      [] sys.number = 12 -> {}
      [] sys.number = 14 -> {uptime_ms(pit)}
      [] OTHER -> {U32_MAX}

\* handle_syscall has returned what the claim says
ReturnedAsClaimed ==
    /\ sys.pc = "returned"
    /\ events[1].name = SyscallEvent(sys.number)
    /\ IF sys.number \in KnownSyscalls
       THEN /\ result.success
            /\ get_u32(context, "result") = StoredResult
            /\ sys.ret = unwrap_or(StoredResult, 0)
       ELSE /\ events[1].name = "sys_unknown"
            /\ ~result.success
            /\ failure_count(result) = 1
            /\ sys.ret = U32_MAX

\* whenever handle_syscall returns, it returns what the claim says
SyscallReturnValue == (sys.pc = "returned") => ReturnedAsClaimed

\* every call returns what the claim says, a sleep of at least one tick
\* excepted
SleepsATick == sys.number = 13 /\ (sys.arg1 * pit.TIMER_HZ) \div 1000 >= 1

BuiltShortCall == sys.pc = "built" /\ ~SleepsATick

SyscallReturnsUnlessSleeping == BuiltShortCall ~> ReturnedAsClaimed

\* C23: every call of handle_syscall returns: for exit, read, write, getpid,
\* yield, sleep and time the Strict chain succeeds and the value returned is
\* the one the selected event stored under `result`; for every other number
\* sys_unknown is selected and fails, and u32::MAX is returned.
C23_SyscallReturns == (sys.pc = "built") ~> ReturnedAsClaimed

----------------------------------------------------------------------------
(* ATI Rage Mobility P (drivers/ati_rage.rs).  `g` is the AtiRage structure *)
(* and `hw` the chip: whether the PCI scan finds it, its BAR0 and BAR2 and  *)
(* what its CONFIG_CHIP_ID and CONFIG_MEMSIZE registers read.  Addresses    *)
(* and register offsets are counted in units of 8 bytes, which keeps the    *)
(* 32-bit addresses above 2 GiB within the integers of the model checker.   *)
(* Each call returns the structure, what it returned, and in `mmio` the     *)
(* value mmio_verified had at each register write it made.                  *)

MIN_MMIO_ADDR == 268435456  \* 0x8000_0000 bytes
MAX_MMIO_ADDR == 536739840  \* 0xFFF0_0000 bytes
CONFIG_CHIP_ID == 28        \* offset 0x00E0
CONFIG_MEMSIZE == 31        \* offset 0x00F8

AtiRage_new ==
    [mmio_base |-> 0, fb_base |-> 0, fb_size |-> 0, width |-> 0, height |-> 0, bpp |-> 0,
     pitch |-> 0, initialized |-> FALSE, hw_cursor_enabled |-> FALSE,
     mmio_verified |-> FALSE]

\* DisplayMode::mode_800x600_60, mode_1024x768_60, mode_640x480_60
mode_800x600_60 == [width |-> 800, height |-> 600]
mode_1024x768_60 == [width |-> 1024, height |-> 768]
mode_640x480_60 == [width |-> 640, height |-> 480]

\* Option<u32>, {} standing for None
mmio_read_safe(g, reg, hw) ==
    IF g.mmio_base = 0 THEN {}
    ELSE IF g.mmio_base + reg < MIN_MMIO_ADDR \/ g.mmio_base + reg > MAX_MMIO_ADDR THEN {}
    ELSE {hw.regs[reg]}

verify_mmio(g, hw) ==
    LET chip_id == mmio_read_safe(g, CONFIG_CHIP_ID, hw)
    IN chip_id # {} /\ chip_id # {0} /\ chip_id # {U32_MAX}

detect_vram_size(g, hw) ==
    LET memsize == mmio_read_safe(g, CONFIG_MEMSIZE, hw)
    IN IF memsize # {} /\ (\E m \in memsize : m > 0 /\ m <= 32 * 1024 * 1024)
       THEN CHOOSE m \in memsize : TRUE
       ELSE 8 * 1024 * 1024

\* the register writes of a call that writes when `guard` lets it
Writes(g, guard) == IF guard THEN {g.mmio_verified} ELSE {}

soft_reset(g) == Writes(g, g.mmio_verified)

init_memory_controller(g) == Writes(g, g.mmio_verified)

init_2d_engine(g) == Writes(g, g.mmio_verified)

\* the memory controller is programmed before the chip was seen to answer
AtiRage_init_WritesFirst(g, hw) ==
    LET g1 == [g EXCEPT !.fb_base = hw.bar0.addr, !.mmio_base = hw.bar2.addr]
        g2 == [g1 EXCEPT !.mmio_verified = TRUE]
        g3 == [g2 EXCEPT !.fb_size = detect_vram_size(g2, hw)]
    IN IF hw.bar0.io THEN [rage |-> g, ret |-> "BAR0 is I/O space, expected memory", mmio |-> {}]
       ELSE IF hw.bar2.io
       THEN [rage |-> g, ret |-> "BAR2 is I/O space, expected memory", mmio |-> {}]
       ELSE IF g1.fb_base = 0
       THEN [rage |-> g1, ret |-> "Framebuffer BAR is zero", mmio |-> {}]
       ELSE IF g1.mmio_base = 0 THEN [rage |-> g1, ret |-> "MMIO BAR is zero", mmio |-> {}]
       ELSE IF g1.mmio_base < MIN_MMIO_ADDR \/ g1.mmio_base > MAX_MMIO_ADDR
       THEN [rage |-> g1, ret |-> "MMIO address out of expected range", mmio |-> {}]
       ELSE IF g1.fb_base < 131072
       THEN [rage |-> g1, ret |-> "Framebuffer address suspiciously low", mmio |-> {}]
       ELSE IF ~verify_mmio(g1, hw)
       THEN [rage |-> g1, ret |-> "MMIO verification failed - hardware not responding",
             mmio |-> Writes(g1, TRUE)]
       ELSE [rage |-> [g3 EXCEPT !.initialized = TRUE], ret |-> "Ok",
             mmio |-> soft_reset(g3) \cup init_memory_controller(g3)]

\* AtiRage::init; 131072 is 0x0010_0000 bytes
AtiRage_init(g, hw) ==
    LET g1 == [g EXCEPT !.fb_base = hw.bar0.addr, !.mmio_base = hw.bar2.addr]
        g2 == [g1 EXCEPT !.mmio_verified = TRUE]
        g3 == [g2 EXCEPT !.fb_size = detect_vram_size(g2, hw)]
    IN IF hw.bar0.io THEN [rage |-> g, ret |-> "BAR0 is I/O space, expected memory", mmio |-> {}]
       ELSE IF hw.bar2.io
       THEN [rage |-> g, ret |-> "BAR2 is I/O space, expected memory", mmio |-> {}]
       ELSE IF g1.fb_base = 0
       THEN [rage |-> g1, ret |-> "Framebuffer BAR is zero", mmio |-> {}]
       ELSE IF g1.mmio_base = 0 THEN [rage |-> g1, ret |-> "MMIO BAR is zero", mmio |-> {}]
       ELSE IF g1.mmio_base < MIN_MMIO_ADDR \/ g1.mmio_base > MAX_MMIO_ADDR
       THEN [rage |-> g1, ret |-> "MMIO address out of expected range", mmio |-> {}]
       ELSE IF g1.fb_base < 131072
       THEN [rage |-> g1, ret |-> "Framebuffer address suspiciously low", mmio |-> {}]
       ELSE IF ~verify_mmio(g1, hw)
       THEN [rage |-> g1, ret |-> "MMIO verification failed - hardware not responding",
             mmio |-> {}]
       ELSE [rage |-> [g3 EXCEPT !.initialized = TRUE], ret |-> "Ok",
             mmio |-> soft_reset(g3) \cup init_memory_controller(g3)]

\* ati_rage::init on the static ATI_RAGE
ati_rage_init(g, hw) ==
    IF ~hw.found
    THEN [rage |-> g, ret |-> "ATI Rage Mobility P not found on PCI bus", mmio |-> {}]
    ELSE AtiRage_init(g, hw)

\* ati_rage::get: whether it yields the controller
ati_rage_get(g) == g.initialized

set_mode(g, mode, bpp) ==
    IF ~g.initialized THEN [rage |-> g, ret |-> "GPU not initialized", mmio |-> {}]
    ELSE IF ~g.mmio_verified THEN [rage |-> g, ret |-> "MMIO not verified", mmio |-> {}]
    ELSE IF bpp \notin {8, 15, 16, 24, 32}
    THEN [rage |-> g, ret |-> "Unsupported bit depth", mmio |-> Writes(g, TRUE)]
    ELSE LET g1 == [g EXCEPT !.width = mode.width, !.height = mode.height, !.bpp = bpp,
                             !.pitch = ((mode.width * (bpp \div 8) + 63) \div 64) * 64]
         IN [rage |-> g1, ret |-> "Ok", mmio |-> Writes(g, TRUE) \cup init_2d_engine(g1)]

enable_hw_cursor(g) ==
    IF ~g.initialized \/ ~g.mmio_verified THEN [rage |-> g, ret |-> "Ok", mmio |-> {}]
    ELSE [rage |-> [g EXCEPT !.hw_cursor_enabled = TRUE], ret |-> "Ok",
          mmio |-> Writes(g, TRUE)]

disable_hw_cursor(g) ==
    IF ~g.mmio_verified THEN [rage |-> g, ret |-> "Ok", mmio |-> {}]
    ELSE [rage |-> [g EXCEPT !.hw_cursor_enabled = FALSE], ret |-> "Ok",
          mmio |-> Writes(g, TRUE)]

set_cursor_pos(g) ==
    [rage |-> g, ret |-> "Ok", mmio |-> Writes(g, g.hw_cursor_enabled /\ g.mmio_verified)]

\* fill_rect, copy_rect and set_cursor_image
accelerated(g) ==
    [rage |-> g, ret |-> "Ok", mmio |-> Writes(g, g.initialized /\ g.mmio_verified)]

\* enter_low_power and exit_low_power
low_power(g) == [rage |-> g, ret |-> "Ok", mmio |-> Writes(g, g.mmio_verified)]

\* what AtiRageProbeEvent does with the controller: init, then through get
\* set_mode(800x600, 32) and enable_hw_cursor
ProbeController(g, hw) ==
    LET i == ati_rage_init(g, hw)
        m == set_mode(i.rage, mode_800x600_60, 32)
        c == enable_hw_cursor(m.rage)
    IN IF i.ret # "Ok" \/ ~ati_rage_get(i.rage) THEN i
       ELSE IF m.ret # "Ok" THEN [m EXCEPT !.mmio = @ \cup i.mmio]
       ELSE [c EXCEPT !.mmio = @ \cup i.mmio \cup m.mmio]

\* the chips the kernel may find: none, a Rage that answers, one whose
\* CONFIG_CHIP_ID reads 0, one that reads 0xFFFFFFFF, and one whose register
\* window ends beyond MAX_MMIO_ADDR, which is not read at all
AtiMachines ==
    LET chip(found, mmio, id) ==
            [found |-> found, bar0 |-> [io |-> FALSE, addr |-> 513802240],
             bar2 |-> [io |-> FALSE, addr |-> mmio],
             regs |-> [reg \in {CONFIG_CHIP_ID, CONFIG_MEMSIZE} |->
                          IF reg = CONFIG_CHIP_ID THEN id ELSE 8 * 1024 * 1024]]
    IN {chip(FALSE, 511836160, 19533), chip(TRUE, 511836160, 19533),
        chip(TRUE, 511836160, 0), chip(TRUE, 511836160, U32_MAX),
        chip(TRUE, MAX_MMIO_ADDR, 19533)}

\* the outcome of ati_rage::init on a chip, as the driver events name it
AtiKind(hw) ==
    IF ~hw.found THEN "absent"
    ELSE IF ati_rage_init(AtiRage_new, hw).ret = "Ok" THEN "present"
    ELSE "dead"

RageModes == {mode_800x600_60, mode_1024x768_60, mode_640x480_60}

RageDepths == {8, 16, 32, 12}

RageIdle ==
    /\ rage = AtiRage_new
    /\ rage_hw = CHOOSE hw \in AtiMachines : ~hw.found
    /\ rage_call = [op |-> "new", ret |-> "Ok", mmio |-> {}]

\* the kernel boots on a machine with one of the chips
RageInit ==
    /\ DrvInit
    /\ drv.hw.touchpad = PlainMouse
    /\ rage = AtiRage_new
    /\ rage_hw \in AtiMachines
    /\ drv.hw.ati = AtiKind(rage_hw)
    /\ rage_call = [op |-> "new", ret |-> "Ok", mmio |-> {}]

RageBuild == BuildDriverChain /\ UNCHANGED <<rage, rage_hw, rage_call>>

\* init_all_drivers runs the chain; its first event works on ATI_RAGE
RageBoot ==
    /\ ExecuteDriverChain
    /\ LET r == ProbeController(rage, rage_hw)
       IN IF InSeq(1, executed')
          THEN /\ rage' = r.rage
               /\ rage_call' = [op |-> "probe", ret |-> r.ret, mmio |-> r.mmio]
          ELSE UNCHANGED <<rage, rage_call>>
    /\ UNCHANGED rage_hw

\* a call on ATI_RAGE
RageCall(op, r) ==
    /\ rage' = r.rage
    /\ rage_call' = [op |-> op, ret |-> r.ret, mmio |-> r.mmio]
    /\ UNCHANGED <<rage_hw, chainVars, ptrVars, drvVars>>

RageNext ==
    \/ RageBuild
    \/ RageBoot
    \/ \E mode \in RageModes, bpp \in RageDepths : RageCall("set_mode", set_mode(rage, mode, bpp))
    \/ RageCall("enable_hw_cursor", enable_hw_cursor(rage))
    \/ RageCall("disable_hw_cursor", disable_hw_cursor(rage))
    \/ RageCall("set_cursor_pos", set_cursor_pos(rage))
    \/ RageCall("accelerated", accelerated(rage))
    \/ RageCall("low_power", low_power(rage))

\* the verification read of init returns 0 or 0xFFFFFFFF
VerificationFails(hw) ==
    /\ hw.found
    /\ mmio_read_safe([AtiRage_new EXCEPT !.mmio_base = hw.bar2.addr], CONFIG_CHIP_ID, hw)
          \in {{0}, {U32_MAX}}

\* init_all_drivers returned the VESA mode of the boot info
FromVesa ==
    /\ drv.out.gpu_type = GPU_VESA
    /\ drv.out.fb_addr = drv.vesa.addr
    /\ drv.out.width = drv.vesa.w
    /\ drv.out.height = drv.vesa.h
    /\ drv.out.bpp = drv.vesa.bpp
    /\ drv.out.pitch = drv.vesa.pitch
    /\ ~drv.out.hw_cursor
    /\ get_u32(context, "fb_addr") = {drv.vesa.addr}
    /\ get_u32(context, "fb_width") = {drv.vesa.w}
    /\ get_u32(context, "fb_height") = {drv.vesa.h}
    /\ get_u32(context, "fb_bpp") = {drv.vesa.bpp}
    /\ get_u32(context, "fb_pitch") = {drv.vesa.pitch}

\* C34: initialized implies mmio_verified, hw_cursor_enabled implies
\* initialized, and no register is written while mmio_verified is false; on a
\* chip whose verification read returns 0 or 0xFFFFFFFF init returns an
\* error and leaves initialized false, ati_rage::get yields no controller, and
\* the driver chain fills the framebuffer keys from the VESA mode.
C34_RageGuards ==
    /\ rage.initialized => rage.mmio_verified
    /\ rage.hw_cursor_enabled => rage.initialized
    /\ FALSE \notin rage_call.mmio
    /\ VerificationFails(rage_hw) =>
          /\ ~rage.initialized
          /\ ~ati_rage_get(rage)
          /\ rage_call.op = "probe" =>
                rage_call.ret = "MMIO verification failed - hardware not responding"
          /\ drv.pc = "returned" => FromVesa

\* the kernel has booted on a chip that reads 0xFFFFFFFF and runs on the
\* VESA mode; a later set_mode was refused
C34_Witness ==
    /\ VerificationFails(rage_hw)
    /\ rage_hw.regs[CONFIG_CHIP_ID] = U32_MAX
    /\ drv.pc = "returned"
    /\ FromVesa
    /\ rage_call.op = "set_mode"
    /\ rage_call.ret = "GPU not initialized"

----------------------------------------------------------------------------
(* Bump allocator (mm/heap.rs).  Addresses, sizes and alignments are        *)
(* counted in units of 8 bytes, which keeps 32-bit usize arithmetic within  *)
(* the integers of the model checker; usize wraps at USIZE_MODULUS.  An     *)
(* addition that overflows wraps in a build without overflow checks and     *)
(* panics in a build with them.                                             *)

HEAP_START == 2097152       \* 0x0100_0000 bytes
HEAP_SIZE == 524288         \* 0x0040_0000 bytes
HEAP_END == HEAP_START + HEAP_SIZE
USIZE_MODULUS == 536870912  \* 2^32 bytes

\* allocations that return a block are followed up to this many
MaxAllocs == 3

SimpleBumpAllocator_new == [next |-> HEAP_START, panicked |-> FALSE]

\* (addr + align - 1) & !(align - 1), align a power of two
align_up(addr, align) ==
    LET sum == (addr + align - 1) % USIZE_MODULUS
    IN sum - (sum % align)

\* the bounds check is made on the start of the block
alloc_ChecksStart(h, size, align, checks) ==
    LET alloc_start == align_up(h.next, align)
        alloc_end == (alloc_start + size) % USIZE_MODULUS
    IN IF checks /\ alloc_start + size >= USIZE_MODULUS
       THEN [heap |-> [h EXCEPT !.panicked = TRUE], ret |-> NULL]
       ELSE IF alloc_start > HEAP_END THEN [heap |-> h, ret |-> NULL]
       ELSE [heap |-> [h EXCEPT !.next = alloc_end], ret |-> alloc_start]

\* returns the allocator and the pointer, NULL standing for the null pointer;
\* `checks` tells whether the build checks arithmetic for overflow
alloc(h, size, align, checks) ==
    LET alloc_start == align_up(h.next, align)
        alloc_end == (alloc_start + size) % USIZE_MODULUS
    IN IF checks /\ alloc_start + size >= USIZE_MODULUS
       THEN [heap |-> [h EXCEPT !.panicked = TRUE], ret |-> NULL]
       ELSE IF alloc_end > HEAP_END THEN [heap |-> h, ret |-> NULL]
       ELSE [heap |-> [h EXCEPT !.next = alloc_end], ret |-> alloc_start]

dealloc(h) == h

\* sizes: nothing, 8 bytes, 1 MiB, the whole heap, 8 bytes more than the
\* heap, the largest multiple of 8 below isize::MAX, and the largest usize
HeapSizes == {0, 1, 131072, HEAP_SIZE, HEAP_SIZE + 1, 268435455, USIZE_MODULUS - 1}

\* alignments: 8 bytes, 64 bytes, 2 MiB and 2^31 bytes
HeapAligns == {1, 8, 262144, 268435456}

\* what Layout::from_size_align accepts: the size rounded up to the
\* alignment does not exceed isize::MAX
ValidLayout(size, align) ==
    ((size + align - 1) \div align) * align <= 268435455

HeapIdle ==
    /\ heap = SimpleBumpAllocator_new
    /\ heap_call = [op |-> "new", size |-> 0, align |-> 1, ret |-> NULL, valid |-> TRUE]
    /\ heap_blocks = {}

Alloc(size, align, checks) ==
    /\ ~heap.panicked
    /\ Cardinality(heap_blocks) < MaxAllocs
    /\ LET r == alloc(heap, size, align, checks)
       IN /\ heap' = r.heap
          /\ heap_call' = [op |-> "alloc", size |-> size, align |-> align, ret |-> r.ret,
                           valid |-> heap_call.valid /\ ValidLayout(size, align)]
          /\ heap_blocks' = IF r.ret = NULL THEN heap_blocks
                            ELSE heap_blocks \cup {<<r.ret, size>>}

Dealloc(block) ==
    /\ ~heap.panicked
    /\ heap' = dealloc(heap)
    /\ heap_call' = [heap_call EXCEPT !.op = "dealloc", !.size = block[2], !.ret = block[1]]
    /\ UNCHANGED heap_blocks

HeapNext ==
    \/ \E size \in HeapSizes, align \in HeapAligns, checks \in BOOLEAN :
          Alloc(size, align, checks)
    \/ \E block \in heap_blocks : Dealloc(block)

\* two blocks share an address
Overlap(a, b) == a[1] < b[1] + b[2] /\ b[1] < a[1] + a[2]

\* the request fits between the aligned bump pointer and the end of the heap
Fits(next, size, align) ==
    ((next + align - 1) \div align) * align + size <= HEAP_END

\* what a step of the allocator does, as the claim has it
HeapStep ==
    /\ ~heap'.panicked
    /\ heap'.next >= heap.next
    /\ heap_call'.op = "dealloc" => heap' = heap
    /\ heap_call'.op = "alloc" =>
          /\ (heap_call'.ret # NULL) = Fits(heap.next, heap_call'.size, heap_call'.align)
          /\ heap_call'.ret = NULL => heap'.next = heap.next
          /\ heap_call'.ret # NULL =>
                LET block == <<heap_call'.ret, heap_call'.size>>
                IN /\ block[1] % heap_call'.align = 0
                   /\ block[1] >= HEAP_START
                   /\ block[1] + block[2] <= HEAP_END
                   /\ \A earlier \in heap_blocks : ~Overlap(block, earlier)

\* C35 as stated: for every size up to the largest usize and every
\* power-of-two alignment each non-null result is aligned, lies in the heap
\* and overlaps no earlier block, the bump pointer never decreases, dealloc
\* changes nothing, and a request that does not fit returns null and leaves
\* the bump pointer unchanged.
C35_Original == [][HeapStep]_vars

\* C35 (amended): the same, for the layouts a Layout can hold: the size,
\* rounded up to the alignment, is at most isize::MAX.
C35_BumpAllocator == [][heap_call'.valid => HeapStep]_vars

\* the third block was handed out after an alignment gap, and a request of
\* the largest layout size was turned down since
C35_Witness ==
    /\ heap_call.valid
    /\ heap_call.op = "alloc"
    /\ heap_call.ret = NULL
    /\ heap_call.size = 268435455
    /\ Cardinality(heap_blocks) = 2
    /\ \E a \in heap_blocks, b \in heap_blocks : a[1] + a[2] < b[1] /\ b[1] % 262144 = 0
    /\ heap.next > HEAP_START

----------------------------------------------------------------------------
(* Specifications.  Each one runs the subsystems named in `k` and leaves    *)
(* the others in their initial state.                                       *)

ChainIdle == ChainNew
DeskIdle == DeskNew

IdleBut(k) ==
    /\ IF "chain" \in k THEN TRUE ELSE ChainIdle
    /\ IF "perm" \in k THEN TRUE ELSE PermIdle
    /\ IF "desk" \in k THEN TRUE ELSE DeskIdle
    /\ IF "pmm" \in k THEN TRUE ELSE PmmIdle
    /\ IF "ilist" \in k THEN TRUE ELSE IListIdle
    /\ IF "sched" \in k THEN TRUE ELSE SchedIdle
    /\ IF "kbd" \in k THEN TRUE ELSE KbdIdle
    /\ IF "ptr" \in k THEN TRUE ELSE PtrIdle
    /\ IF "idt" \in k THEN TRUE ELSE IdtIdle
    /\ IF "boot" \in k THEN TRUE ELSE BootIdle
    /\ IF "pit" \in k THEN TRUE ELSE PitIdle
    /\ IF "ctx" \in k THEN TRUE ELSE CtxIdle
    /\ IF "drv" \in k THEN TRUE ELSE DrvIdle
    /\ IF "sys" \in k THEN TRUE ELSE SysIdle
    /\ IF "draw" \in k THEN TRUE ELSE DrawIdle
    /\ IF "robin" \in k THEN TRUE ELSE RobinIdle
    /\ IF "rage" \in k THEN TRUE ELSE RageIdle
    /\ IF "heap" \in k THEN TRUE ELSE HeapIdle
    /\ IF "fill" \in k THEN TRUE ELSE FillIdle

FrameBut(k) ==
    /\ IF "chain" \in k THEN TRUE ELSE UNCHANGED chainVars
    /\ IF "perm" \in k THEN TRUE ELSE UNCHANGED permVars
    /\ IF "desk" \in k THEN TRUE ELSE UNCHANGED deskVars
    /\ IF "pmm" \in k THEN TRUE ELSE UNCHANGED pmmVars
    /\ IF "ilist" \in k THEN TRUE ELSE UNCHANGED ilistVars
    /\ IF "sched" \in k THEN TRUE ELSE UNCHANGED schedVars
    /\ IF "kbd" \in k THEN TRUE ELSE UNCHANGED kbdVars
    /\ IF "ptr" \in k THEN TRUE ELSE UNCHANGED ptrVars
    /\ IF "idt" \in k THEN TRUE ELSE UNCHANGED idtVars
    /\ IF "boot" \in k THEN TRUE ELSE UNCHANGED bootVars
    /\ IF "pit" \in k THEN TRUE ELSE UNCHANGED pitVars
    /\ IF "ctx" \in k THEN TRUE ELSE UNCHANGED ctxVars
    /\ IF "drv" \in k THEN TRUE ELSE UNCHANGED drvVars
    /\ IF "sys" \in k THEN TRUE ELSE UNCHANGED sysVars
    /\ IF "draw" \in k THEN TRUE ELSE UNCHANGED drawVars
    /\ IF "robin" \in k THEN TRUE ELSE UNCHANGED robinVars
    /\ IF "rage" \in k THEN TRUE ELSE UNCHANGED rageVars
    /\ IF "heap" \in k THEN TRUE ELSE UNCHANGED heapVars
    /\ IF "fill" \in k THEN TRUE ELSE UNCHANGED fillVars

Init == ChainNew /\ IdleBut({"chain"})
Next == ChainNext /\ FrameBut({"chain"})
Spec == Init /\ [][Next]_vars

InitPermission == PermInit /\ IdleBut({"perm"})
NextPermission == PermissionExecute /\ FrameBut({"perm"})
SpecPermission == InitPermission /\ [][NextPermission]_vars

InitDesktop == DeskNew /\ IdleBut({"desk"})
NextDesktop == DeskNext /\ FrameBut({"desk"})
SpecDesktop == InitDesktop /\ [][NextDesktop]_vars

InitPmm == PmmInit /\ IdleBut({"pmm"})
NextPmm == PmmNext /\ FrameBut({"pmm"})
SpecPmm == InitPmm /\ [][NextPmm]_vars

InitIList == IListIdle /\ IdleBut({"ilist"})
NextIList == IListNext /\ FrameBut({"ilist"})
SpecIList == InitIList /\ [][NextIList]_vars

InitSched == SchedIdle /\ IdleBut({"sched"})
NextSched == SchedNext /\ FrameBut({"sched"})
SpecSched == InitSched /\ [][NextSched]_vars

InitKeyboard == KbdIdle /\ IdleBut({"kbd"})
NextKeyboard == KbdNext /\ FrameBut({"kbd"})
SpecKeyboard == InitKeyboard /\ [][NextKeyboard]_vars

InitPointer == PtrInit /\ IdleBut({"ptr"})
NextPointer == PtrNext /\ FrameBut({"ptr"})
SpecPointer == InitPointer /\ [][NextPointer]_vars

InitIdt == IdtInit /\ IdleBut({"idt", "kbd", "ptr"})
NextIdt == IdtNext /\ FrameBut({"idt", "kbd", "ptr"})
SpecIdt == InitIdt /\ [][NextIdt]_vars

InitBringup == PtrIdle /\ IdleBut({"ptr"})
NextBringup == BringupNext /\ FrameBut({"ptr"})
SpecBringup == InitBringup /\ [][NextBringup]_vars

InitBoot == BootInit /\ IdleBut({"boot", "kbd", "ptr"})
NextBoot == BootNext /\ FrameBut({"boot", "kbd", "ptr"})
SpecBoot == InitBoot /\ [][NextBoot]_vars

InitSleep == SleepInit /\ IdleBut({"pit", "idt"})
NextSleep == SleepNext /\ FrameBut({"pit", "idt"})
SpecSleep == InitSleep /\ [][NextSleep]_vars

\* SpecSleep with the timer interrupt and the steps of the caller taken fairly
SpecSleepFair ==
    SpecSleep /\ WF_vars(TimerInterrupt /\ FrameBut({"pit", "idt"})) /\ WF_vars(delay_ms_test /\ FrameBut({"pit", "idt"}))

InitClick == ClickInit /\ IdleBut({"desk"})
NextClick == ClickNext /\ FrameBut({"desk"})
SpecClick == InitClick /\ [][NextClick]_vars

InitPacket == PacketInit /\ IdleBut({"ptr"})
NextPacket == PacketNext /\ FrameBut({"ptr"})
SpecPacket == InitPacket /\ [][NextPacket]_vars

InitContext == CtxIdle /\ IdleBut({"ctx"})
NextContext == CtxNext /\ FrameBut({"ctx"})
SpecContext == InitContext /\ [][NextContext]_vars

InitDrivers == DrvInit /\ IdleBut({"chain", "ptr", "drv"})
NextDrivers == DrvNext /\ FrameBut({"chain", "ptr", "drv"})
SpecDrivers == InitDrivers /\ [][NextDrivers]_vars

InitSyscall == SysInit /\ IdleBut({"chain", "sched", "pit", "idt", "sys"})
NextSyscall == SysNext /\ FrameBut({"chain", "sched", "pit", "idt", "sys"})
SpecSyscall == InitSyscall /\ [][NextSyscall]_vars

\* SpecSyscall with the timer interrupt and the steps of the caller taken fairly
SpecSyscallFair ==
    SpecSyscall /\ WF_vars(SysTimerInterrupt /\ FrameBut({"chain", "sched", "pit", "idt", "sys"})) /\ WF_vars(SysDelayTest /\ FrameBut({"chain", "sched", "pit", "idt", "sys"})) /\ WF_vars(SyscallSleepCall /\ FrameBut({"chain", "sched", "pit", "idt", "sys"})) /\ WF_vars(SyscallReturn /\ FrameBut({"chain", "sched", "pit", "idt", "sys"}))

InitDraw == DrawInit /\ IdleBut({"desk", "draw"})
NextDraw == DrawNext /\ FrameBut({"desk", "draw"})
SpecDraw == InitDraw /\ [][NextDraw]_vars

InitRobin == RobinInit /\ IdleBut({"sched", "robin"})
NextRobin == RobinNext /\ FrameBut({"sched", "robin"})
SpecRobin == InitRobin /\ [][NextRobin]_vars

InitModifiers == KbdIdle /\ IdleBut({"kbd"})
NextModifiers == ModifiersNext /\ FrameBut({"kbd"})
SpecModifiers == InitModifiers /\ [][NextModifiers]_vars

InitRage == RageInit /\ IdleBut({"chain", "ptr", "drv", "rage"})
NextRage == RageNext /\ FrameBut({"chain", "ptr", "drv", "rage"})
SpecRage == InitRage /\ [][NextRage]_vars

InitHeap == HeapIdle /\ IdleBut({"heap"})
NextHeap == HeapNext /\ FrameBut({"heap"})
SpecHeap == InitHeap /\ [][NextHeap]_vars

InitFill == FillIdle /\ IdleBut({"fill"})
NextFill == FillNext /\ FrameBut({"fill"})
SpecFill == InitFill /\ [][NextFill]_vars

====
